---- MODULE Spec2Model ----
(***************************************************************************)
(* Staged conversion / optimization / caching pipeline of                  *)
(* modules/onnx.py: OnnxRawPipeline.__init__, convert, optimize and        *)
(* preprocess, with the directory tree they read and write.                *)
(*                                                                         *)
(* A directory is a record [graphs, manifest]: the set of sub-components   *)
(* that hold a model.onnx, and the model_index.json file.  A path is a     *)
(* sequence of path components.  An absent value (Python None) of a path   *)
(* is the empty sequence.                                                  *)
(***************************************************************************)
EXTENDS Integers, Sequences, FiniteSets, TLC

\* ---------------------------------------------------------------- bounds
\* number of top-level calls (constructor, preprocess, convert, optimize) and
\* changes of settings made after the first construction
MaxCalls == 2

\* the image sizes a run may ask for
Dims == {512, 768}

\* the batch sizes a run may ask for
BatchSizes == {1, 2}

\* number of partial mappings cls.extract_init_dict returns
MaxParts == 2

\* call frames; sequential operation uses the frame "main" only
Threads == {"main", "other"}

\* ------------------------------------------------------- program constants
submodels_sd == <<"text_encoder", "unet", "vae_encoder", "vae_decoder">>
submodels_sdxl == <<"text_encoder", "text_encoder_2", "unet", "vae_encoder", "vae_decoder">>

\* shared.opts.onnx_cached_models_path and shared.opts.onnx_temp_dir
onnx_cached_models_path == <<"cache">>
onnx_temp_dir == <<"tmp">>

\* the source models on disk: one diffusers directory, one packed file
SrcDirs == {<<"a", "m">>}
SrcFiles == {<<"b", "m">>}
SrcPaths == SrcDirs \cup SrcFiles

None == << >>

Range(s) == {s[i] : i \in 1..Len(s)}

\* ---------------------------------------------------------------- paths
join(dir, name) == Append(dir, name)
\* variant of basename: the name keeps the parent directory
basenameWithParent(path) == path[Len(path) - 1] \o "_" \o path[Len(path)]

basename(path) == path[Len(path)]

\* variant of OptimizedName: the height is left out of the key
OptimizedNameNoHeight(filename, width, height) ==
    filename \o "-" \o ToString(width) \o "w"

\* f"{original_filename}-{config.width}w-{config.height}h"
OptimizedName(filename, width, height) ==
    filename \o "-" \o ToString(width) \o "w-" \o ToString(height) \o "h"

\* ------------------------------------------------------------- manifests
\* a manifest value is a reference pair <<"ref", lib, atr>> (lib or atr may
\* be "None") or a literal <<"lit", v>>
EmptyDict == [k \in {} |-> <<"lit", "">>]
NoManifest == [exists |-> FALSE, body |-> EmptyDict]
ManifestFile(body) == [exists |-> TRUE, body |-> body]

\* model_index.json of an unconverted model
SourceManifest ==
    [k \in {"unet", "tokenizer", "scheduler", "vae", "safety_checker", "requires_safety_checker"} |->
        CASE k = "unet" -> <<"ref", "diffusers", "UNet2DConditionModel">>
          [] k = "tokenizer" -> <<"ref", "transformers", "CLIPTokenizer">>
          [] k = "scheduler" -> <<"ref", "diffusers", "PNDMScheduler">>
          [] k = "vae" -> <<"ref", "diffusers", "AutoencoderKL">>
          [] k = "safety_checker" -> <<"ref", "None", "None">>
          [] OTHER -> <<"lit", "True">>]

\* value a transient pipeline serializes for a module it registered
SerializedValue == <<"ref", "diffusers", "OnnxRuntimeModel">>
\* key sets that pipeline.to_json_string() may produce
SerializedKeySets == {{}, {"unet", "tokenizer"}}

DictRemove(d, k) == [x \in DOMAIN d \ {k} |-> d[x]]

\* variant of update: a key that is already there keeps its value
updateKeepsEarlier(d1, d2) == [k \in DOMAIN d1 \cup DOMAIN d2 |-> IF k \in DOMAIN d1 THEN d1[k] ELSE d2[k]]

\* dict.update
update(d1, d2) == [k \in DOMAIN d1 \cup DOMAIN d2 |-> IF k \in DOMAIN d2 THEN d2[k] ELSE d1[k]]

\* Line 130-133: the partial mappings are merged in order
RECURSIVE MergeExtracted(_)
MergeExtracted(parts) ==
    IF parts = << >> THEN EmptyDict
    ELSE update(MergeExtracted(SubSeq(parts, 1, Len(parts) - 1)), parts[Len(parts)])

\* Line 134-142, applied to the merged mapping
load_init_dict(merged) ==
    LET kept == {k \in DOMAIN merged :
                    /\ merged[k][1] = "ref"
                    /\ merged[k][2] # "None"
                    /\ merged[k][3] # "None"}
    IN [k \in kept |-> merged[k]]

\* Python None as a resolved value
NullValue == <<"null">>

\* load_submodel when nothing raises: the object attribute.from_pretrained
\* builds from the sub-component's directory
load_submodel(path, submodel_name, item) ==
    IF item[2] = "None" \/ item[3] = "None"
    THEN NullValue
    ELSE <<"obj", item[2], item[3], join(path, submodel_name)>>

\* ------------------------------------------------------------ directories
EmptyDir == [graphs |-> {}, manifest |-> NoManifest]
SourceDir == [graphs |-> {}, manifest |-> ManifestFile(SourceManifest)]

isdir(f, path) == path \in DOMAIN f
rmtree(f, path) == [q \in DOMAIN f \ {path} |-> f[q]]
WriteDir(f, path, d) == [q \in DOMAIN f \cup {path} |-> IF q = path THEN d ELSE f[q]]
\* shutil.copytree(src, dst, ignore=ignore_patterns("weights.pb", "*.onnx", ...))
copytree(f, src, dst) == WriteDir(f, dst, [graphs |-> {}, manifest |-> f[src].manifest])

\* what a cache check found in a directory that exists, and whether the
\* scratch directory existed then
Seen(f, path) == [valid |-> TRUE, graphs |-> f[path].graphs, manifest |-> f[path].manifest.exists,
                  scratch |-> isdir(f, onnx_temp_dir)]

\* what a cache check that found no directory records
Missed(f) == [valid |-> FALSE, graphs |-> {}, manifest |-> FALSE, scratch |-> isdir(f, onnx_temp_dir)]

VARIABLES
    fs,             \* the directories that exist, with their content
    opts,           \* shared.opts: onnx_cache_converted, onnx_cache_optimized, onnx_enable_olive
    config,         \* modules.olive.config, the process-wide run configuration
    raw,            \* the OnnxRawPipeline instance of each frame
    pc,             \* position of each frame
    top,            \* the method the caller invoked
    called,         \* the stages entered during the current top-level call
    in_dir,         \* argument of the running stage
    out_dir,        \* out_dir of the running stage
    idx,            \* index of the sub-component loop
    runs,           \* engine invocations made by the current stage call
    model_index,    \* manifest serialized by the transient pipeline
    err,            \* where the current stage call raised
    converted_dir,  \* value returned by convert
    optimized_dir,  \* value returned by optimize
    ret,            \* outcome of the top-level call
    calls,          \* top-level calls made so far
    last_convert,   \* the direct convert call that returned a directory just before this call
    last_optimize,  \* the latest optimize call that returned a directory
    log,            \* advisories (log.warning) emitted during the current top-level call
    args,           \* batch_size, height and width handed to the current call
    invoked,        \* sub-components the engine was run on by the current stage call, in order
    overlap,        \* whether another frame was inside a call during the current call
    hit,            \* what the directory held when the current stage call found it cached
    crashed,        \* directories a stopped process left behind
    pipeline,       \* the pipeline object the current call of preprocess has built
    olive_config,   \* the engine configuration optimize last handed to run in the current call
    prior,          \* how the latest preprocess on the frame's instance ended
    lpc,            \* position of the manifest loader and sub-component resolver
    extracted,      \* partial mappings cls.extract_init_dict returned
    R,              \* value returned by load_init_dict
    init_dict,      \* argument of load_submodels
    thrown,         \* keys for which load_submodel raised
    loaded          \* value returned by load_submodels

vars == <<fs, opts, config, raw, pc, top, called, in_dir, out_dir, idx, runs,
          model_index, err, converted_dir, optimized_dir, ret, calls,
          last_convert, last_optimize, log, args, invoked, overlap, hit, crashed,
          pipeline, olive_config, prior, lpc, extracted, R, init_dict, thrown, loaded>>

frame == <<pc, top, called, in_dir, out_dir, idx, runs, model_index, err,
           converted_dir, optimized_dir, ret, log, args, invoked, overlap, hit, pipeline,
           olive_config>>

loader == <<lpc, extracted, R, init_dict, thrown, loaded>>

\* ExecutionProvider: the targets the bounded runs choose between, and the
\* one get_default_execution_provider returns on a CPU back-end
ExecutionProviders == {"CPUExecutionProvider", "CUDAExecutionProvider"}
DefaultProvider == "CPUExecutionProvider"

NoOliveConfig == [valid |-> FALSE, file |-> "", execution_provider |-> "", float16 |-> FALSE]
NoRet == [kind |-> "none", via |-> "", cls |-> "", path |-> None]
NoArgs == [batch_size |-> 0, height |-> 0, width |-> 0]
NoHit == [valid |-> FALSE, graphs |-> {}, manifest |-> FALSE, scratch |-> FALSE]
NoCall == [valid |-> FALSE, age |-> 0, path |-> None, filename |-> "",
           width |-> 0, height |-> 0, result |-> None, runs |-> 0, overlapped |-> FALSE]

\* variant of submodels: the larger variant is converted like the base architecture
submodelsBaseOnly(t) == submodels_sd

submodels(t) == IF raw[t]._is_sdxl THEN submodels_sdxl ELSE submodels_sd

\* ------------------------------------------------------------ construction
\* the checkpoint metadata provider: the hash, checkpoint info and checkpoint
\* name the model loader sets on a raw pipeline it has constructed for a source
CheckpointOf(path) ==
    [sd_model_hash |-> "hash:" \o path[1] \o "/" \o path[2],
     sd_checkpoint_info |-> "info:" \o path[1] \o "/" \o path[2],
     sd_model_checkpoint |-> "name:" \o path[1] \o "/" \o path[2]]

\* the scheduler of the pipeline cls.from_single_file builds from a packed file
SingleFileScheduler(path) == <<"obj", "diffusers", "PNDMScheduler", path>>

\* a pipeline object nobody has built
NoPipeline == [sd_model_hash |-> "", sd_checkpoint_info |-> "", sd_model_checkpoint |-> "",
               scheduler |-> NullValue]

\* OnnxRawPipeline.__init__ for a source directory
RawFromDir(is_sdxl, path, f) ==
    [_is_sdxl |-> is_sdxl, path |-> path, original_filename |-> basename(path),
     init_dict |-> DictRemove(load_init_dict(f[path].manifest.body), "vae"),
     scheduler |-> load_submodel(path, "scheduler",
                                 load_init_dict(f[path].manifest.body)["scheduler"]),
     sd_model_hash |-> CheckpointOf(path).sd_model_hash,
     sd_checkpoint_info |-> CheckpointOf(path).sd_checkpoint_info,
     sd_model_checkpoint |-> CheckpointOf(path).sd_model_checkpoint]

\* OnnxRawPipeline.__init__ for a packed file; outcome "ok", or the place
\* where the try block raised
RawFromFile(is_sdxl, path, outcome) ==
    [_is_sdxl |-> is_sdxl, path |-> path, original_filename |-> basename(path),
     init_dict |-> IF outcome = "ok"
                   THEN DictRemove(load_init_dict(SourceManifest), "vae")
                   ELSE EmptyDict,
     scheduler |-> IF outcome = "from_single_file" THEN NullValue ELSE SingleFileScheduler(path),
     sd_model_hash |-> CheckpointOf(path).sd_model_hash,
     sd_checkpoint_info |-> CheckpointOf(path).sd_checkpoint_info,
     sd_model_checkpoint |-> CheckpointOf(path).sd_model_checkpoint]

TempAfterInit(f, outcome) ==
    CASE outcome = "ok" -> WriteDir(rmtree(f, onnx_temp_dir), onnx_temp_dir, SourceDir)
      [] outcome = "save_pretrained" -> WriteDir(rmtree(f, onnx_temp_dir), onnx_temp_dir, EmptyDir)
      [] OTHER -> f

InitOutcomes == {"ok", "from_single_file", "save_pretrained"}

BlankFrame(v) == [t \in Threads |-> v]

\* the manifest loader and the resolver are not exercised on their own
LoaderOff ==
    /\ lpc = "off"
    /\ extracted = << >>
    /\ R = EmptyDict
    /\ init_dict = EmptyDict
    /\ thrown = {}
    /\ loaded = EmptyDict

\* a complete entry, as a successful stage of the base architecture leaves it
CompleteDir ==
    [graphs |-> Range(submodels_sd),
     manifest |-> ManifestFile([k \in {"unet", "tokenizer"} |-> SerializedValue])]

\* what an earlier process may have left under the cache root: nothing, an
\* incomplete or a complete conversion entry, an incomplete optimization entry
InitialCaches ==
    {[q \in {} |-> EmptyDir],
     [q \in {join(onnx_cached_models_path, "m")} |-> EmptyDir],
     [q \in {join(onnx_cached_models_path, "m")} |-> CompleteDir],
     [q \in {join(onnx_cached_models_path, OptimizedName("m", 512, 512))} |-> EmptyDir]}

Init ==
    /\ opts \in [onnx_cache_converted : BOOLEAN, onnx_cache_optimized : BOOLEAN,
                 onnx_enable_olive : BOOLEAN,
                 onnx_execution_provider : {DefaultProvider},
                 onnx_olive_float16 : {FALSE}]
    /\ config = [width |-> 512, height |-> 512, batch_size |-> 1, is_sdxl |-> FALSE,
                  cross_attention_dim |-> 0, time_ids_size |-> 0]
    /\ \E left \in InitialCaches, is_sdxl \in BOOLEAN, path \in SrcPaths :
         LET f0 == [q \in SrcDirs \cup DOMAIN left |-> IF q \in SrcDirs THEN SourceDir ELSE left[q]]
         IN IF path \in SrcDirs
            THEN /\ fs = f0
                 /\ raw = BlankFrame(RawFromDir(is_sdxl, path, f0))
            ELSE /\ fs = TempAfterInit(f0, "ok")
                 /\ raw = BlankFrame(RawFromFile(is_sdxl, path, "ok"))
    /\ pc = BlankFrame("idle")
    /\ top = BlankFrame("")
    /\ called = BlankFrame({})
    /\ in_dir = BlankFrame(None)
    /\ out_dir = BlankFrame(None)
    /\ idx = BlankFrame(0)
    /\ runs = BlankFrame(0)
    /\ model_index = BlankFrame(EmptyDict)
    /\ err = BlankFrame("")
    /\ converted_dir = BlankFrame(None)
    /\ optimized_dir = BlankFrame(None)
    /\ ret = BlankFrame(NoRet)
    /\ calls = 0
    /\ last_convert = NoCall
    /\ last_optimize = NoCall
    /\ log = BlankFrame({})
    /\ args = BlankFrame(NoArgs)
    /\ invoked = BlankFrame(<< >>)
    /\ overlap = BlankFrame(FALSE)
    /\ hit = BlankFrame(NoHit)
    /\ crashed = {}
    /\ pipeline = BlankFrame(NoPipeline)
    /\ olive_config = BlankFrame(NoOliveConfig)
    /\ prior = BlankFrame("")
    /\ LoaderOff


\* the convert call that is returning, as a record
ConvertCall(t) ==
    [valid |-> TRUE, age |-> 0, path |-> raw[t].path, filename |-> raw[t].original_filename,
     width |-> 0, height |-> 0, result |-> converted_dir[t], runs |-> runs[t],
     overlapped |-> overlap[t]]

\* the optimize call that is returning, as a record
OptimizeCall(t) ==
    [valid |-> TRUE, age |-> 0, path |-> None, filename |-> raw[t].original_filename,
     width |-> config.width, height |-> config.height, result |-> optimized_dir[t], runs |-> 0,
     overlapped |-> overlap[t]]

\* last_convert describes the call made just before the current one
AgeLastConvert ==
    last_convert' = IF last_convert.valid /\ last_convert.age = 0
                    THEN [last_convert EXCEPT !.age = 1]
                    ELSE NoCall

Set(v, t, x) == [v EXCEPT ![t] = x]

\* variant of Raise: the exception leaves the stage
RaiseUncaught(t, site, handler) ==
    /\ err' = Set(err, t, site)
    /\ pc' = Set(pc, t, "done")

\* an exception raised inside a stage's try block, at the named place
Raise(t, site, handler) ==
    /\ err' = Set(err, t, site)
    /\ pc' = Set(pc, t, handler)

\* the frame is inside a call that has not produced its outcome yet
Running(t) == pc[t] \notin {"idle", "done"}

StartCall(t, method) ==
    /\ pc[t] = "idle"
    /\ calls < MaxCalls
    /\ calls' = calls + 1
    /\ AgeLastConvert
    /\ top' = Set(top, t, method)
    /\ ret' = Set(ret, t, NoRet)
    /\ err' = Set(err, t, "")
    /\ runs' = Set(runs, t, 0)
    /\ idx' = Set(idx, t, 0)
    /\ model_index' = Set(model_index, t, EmptyDict)
    /\ out_dir' = Set(out_dir, t, None)
    /\ converted_dir' = Set(converted_dir, t, None)
    /\ optimized_dir' = Set(optimized_dir, t, None)
    /\ log' = Set(log, t, {})
    /\ invoked' = Set(invoked, t, << >>)
    /\ hit' = Set(hit, t, NoHit)
    /\ pipeline' = Set(pipeline, t, NoPipeline)
    /\ olive_config' = Set(olive_config, t, NoOliveConfig)
    /\ overlap' = [u \in Threads |->
                      IF u = t THEN \E v \in Threads \ {t} : Running(v)
                      ELSE IF Running(u) THEN TRUE ELSE overlap[u]]

\* the keys convert and optimize merge back: self.init_dict without the
\* converted sub-components
MergeSource(t) ==
    [k \in DOMAIN raw[t].init_dict \ Range(submodels(t)) |-> raw[t].init_dict[k]]

\* variant of MergedIndex: the raw pipeline's entries overwrite the serialized ones
MergedIndexOverwrite(t) ==
    LET rest == MergeSource(t)
    IN [k \in DOMAIN model_index[t] \cup DOMAIN rest |->
            IF k \in DOMAIN rest THEN rest[k] ELSE model_index[t][k]]

MergedIndex(t) ==
    LET rest == MergeSource(t)
    IN [k \in DOMAIN model_index[t] \cup DOMAIN rest |->
            IF k \in DOMAIN model_index[t] THEN model_index[t][k] ELSE rest[k]]

EngineOutcomes == {"ok", "config", "run", "footprint_file", "footprint_record"}
PipelineOutcomes == {"ok", "load_model", "constructor"}

\* -------------------------------------------------------------- convert
\* direct call of convert, with the argument preprocess passes
CallConvert(t) ==
    /\ StartCall(t, "convert")
    /\ called' = Set(called, t, {"convert"})
    /\ in_dir' = Set(in_dir, t, IF isdir(fs, raw[t].path) THEN raw[t].path ELSE onnx_temp_dir)
    /\ args' = Set(args, t, NoArgs)
    /\ pc' = Set(pc, t, "cv_check")
    /\ UNCHANGED <<fs, opts, config, raw, last_optimize,
                   crashed, prior, loader>>

\* variant of ConvertCheck: a hit needs the manifest file, not just the directory
ConvertCheckManifest(t) ==
    /\ pc[t] = "cv_check"
    /\ LET d == join(onnx_cached_models_path, raw[t].original_filename)
       IN /\ out_dir' = Set(out_dir, t, d)
          /\ IF isdir(fs, d) /\ fs[d].manifest.exists
             THEN /\ converted_dir' = Set(converted_dir, t, d)
                  /\ hit' = Set(hit, t, Seen(fs, d))
                  /\ pc' = Set(pc, t, "cv_return")
             ELSE /\ converted_dir' = converted_dir
                  /\ hit' = Set(hit, t, Missed(fs))
                  /\ pc' = Set(pc, t, "cv_seed")
    /\ UNCHANGED <<fs, opts, config, raw, top, called, in_dir, idx, runs, model_index,
                   err, optimized_dir, ret, calls, last_convert, last_optimize,
                   log, args, invoked, overlap, crashed, pipeline, olive_config, prior, loader>>

\* variant of ConvertCheck: a directory another frame is still populating is not
\* taken as a hit
ConvertCheckExclusive(t) ==
    /\ pc[t] = "cv_check"
    /\ LET d == join(onnx_cached_models_path, raw[t].original_filename)
           busy == \E u \in Threads \ {t} :
                      /\ pc[u] \in {"cv_seed", "cv_run", "cv_copy", "cv_pipeline", "cv_manifest"}
                      /\ out_dir[u] = d
       IN /\ out_dir' = Set(out_dir, t, d)
          /\ IF isdir(fs, d) /\ ~busy
             THEN /\ converted_dir' = Set(converted_dir, t, d)
                  /\ hit' = Set(hit, t, Seen(fs, d))
                  /\ pc' = Set(pc, t, "cv_return")
             ELSE /\ converted_dir' = converted_dir
                  /\ hit' = Set(hit, t, Missed(fs))
                  /\ pc' = Set(pc, t, "cv_seed")
    /\ UNCHANGED <<fs, opts, config, raw, top, called, in_dir, idx, runs, model_index,
                   err, optimized_dir, ret, calls, last_convert, last_optimize,
                   log, args, invoked, overlap, crashed, pipeline, olive_config, prior, loader>>

\* variant of ConvertCheck: only a directory that holds every graph file is a hit
ConvertCheckComplete(t) ==
    /\ pc[t] = "cv_check"
    /\ LET d == join(onnx_cached_models_path, raw[t].original_filename)
       IN /\ out_dir' = Set(out_dir, t, d)
          /\ IF isdir(fs, d) /\ Range(submodels(t)) \subseteq fs[d].graphs
             THEN /\ converted_dir' = Set(converted_dir, t, d)
                  /\ hit' = Set(hit, t, Seen(fs, d))
                  /\ pc' = Set(pc, t, "cv_return")
             ELSE /\ converted_dir' = converted_dir
                  /\ hit' = Set(hit, t, Missed(fs))
                  /\ pc' = Set(pc, t, "cv_seed")
    /\ UNCHANGED <<fs, opts, config, raw, top, called, in_dir, idx, runs, model_index,
                   err, optimized_dir, ret, calls, last_convert, last_optimize,
                   log, args, invoked, overlap, crashed, pipeline, olive_config, prior, loader>>

\* variant of ConvertCheck: conversion entries are kept apart from optimization entries
ConvertCheckOwnNamespace(t) ==
    /\ pc[t] = "cv_check"
    /\ LET d == join(onnx_cached_models_path, "converted-" \o raw[t].original_filename)
       IN /\ out_dir' = Set(out_dir, t, d)
          /\ IF isdir(fs, d)
             THEN /\ converted_dir' = Set(converted_dir, t, d)
                  /\ hit' = Set(hit, t, Seen(fs, d))
                  /\ pc' = Set(pc, t, "cv_return")
             ELSE /\ converted_dir' = converted_dir
                  /\ hit' = Set(hit, t, Missed(fs))
                  /\ pc' = Set(pc, t, "cv_seed")
    /\ UNCHANGED <<fs, opts, config, raw, top, called, in_dir, idx, runs, model_index,
                   err, optimized_dir, ret, calls, last_convert, last_optimize,
                   log, args, invoked, overlap, crashed, pipeline, olive_config, prior, loader>>

\* variant of ConvertCheck: no cache check, every call converts
ConvertCheckNoCache(t) ==
    /\ pc[t] = "cv_check"
    /\ out_dir' = Set(out_dir, t, join(onnx_cached_models_path, raw[t].original_filename))
    /\ hit' = Set(hit, t, Missed(fs))
    /\ pc' = Set(pc, t, "cv_seed")
    /\ UNCHANGED <<fs, opts, config, raw, top, called, in_dir, idx, runs, model_index,
                   err, converted_dir, optimized_dir, ret, calls, last_convert, last_optimize,
                   log, args, invoked, overlap, crashed, pipeline, olive_config, prior, loader>>

ConvertCheck(t) ==
    /\ pc[t] = "cv_check"
    /\ LET d == join(onnx_cached_models_path, raw[t].original_filename)
       IN /\ out_dir' = Set(out_dir, t, d)
          /\ IF isdir(fs, d)
             THEN /\ converted_dir' = Set(converted_dir, t, d)
                  /\ hit' = Set(hit, t, Seen(fs, d))
                  /\ pc' = Set(pc, t, "cv_return")
             ELSE /\ converted_dir' = converted_dir
                  /\ hit' = Set(hit, t, Missed(fs))
                  /\ pc' = Set(pc, t, "cv_seed")
    /\ UNCHANGED <<fs, opts, config, raw, top, called, in_dir, idx, runs, model_index,
                   err, optimized_dir, ret, calls, last_convert, last_optimize,
                   log, args, invoked, overlap, crashed, pipeline, olive_config, prior, loader>>

ConvertSeed(t) ==
    /\ pc[t] = "cv_seed"
    /\ \E fail \in BOOLEAN :
        IF opts.onnx_cache_converted
        THEN IF fail \/ ~isdir(fs, in_dir[t]) \/ isdir(fs, out_dir[t])
             THEN Raise(t, "copytree", "cv_except") /\ UNCHANGED <<fs, idx>>
             ELSE /\ fs' = copytree(fs, in_dir[t], out_dir[t])
                  /\ idx' = Set(idx, t, 1)
                  /\ pc' = Set(pc, t, "cv_run")
                  /\ err' = err
        ELSE IF fail
             THEN Raise(t, "import", "cv_except") /\ UNCHANGED <<fs, idx>>
             ELSE /\ idx' = Set(idx, t, 1)
                  /\ pc' = Set(pc, t, "cv_run")
                  /\ UNCHANGED <<fs, err>>
    /\ UNCHANGED <<opts, config, raw, top, called, in_dir, out_dir, runs, model_index,
                   converted_dir, optimized_dir, ret, calls, last_convert, last_optimize,
                   log, args, invoked, overlap, hit, crashed, pipeline, olive_config, prior, loader>>

\* variant of EngineStep: a missing footprint record skips the sub-component
\* and the loop goes on
EngineStepContinues(t, present, next, handler) ==
    \E o \in EngineOutcomes :
        LET outcome == IF o = "ok" /\ ~present THEN "run" ELSE o
        IN /\ runs' = Set(runs, t, IF outcome = "config" THEN runs[t] ELSE runs[t] + 1)
           /\ invoked' = Set(invoked, t, IF outcome = "config" THEN invoked[t]
                                          ELSE Append(invoked[t], submodels(t)[idx[t]]))
           /\ IF outcome \in {"ok", "footprint_record"}
              THEN /\ err' = Set(err, t, IF outcome = "ok" THEN err[t] ELSE outcome)
                   /\ IF idx[t] < Len(submodels(t))
                      THEN idx' = Set(idx, t, idx[t] + 1) /\ pc' = pc
                      ELSE idx' = Set(idx, t, 1) /\ pc' = Set(pc, t, next)
              ELSE Raise(t, outcome, handler) /\ idx' = idx

\* one iteration of the engine loop; present says whether the engine's
\* input model exists
EngineStep(t, present, next, handler) ==
    \E o \in EngineOutcomes :
        LET outcome == IF o = "ok" /\ ~present THEN "run" ELSE o
        IN /\ runs' = Set(runs, t, IF outcome = "config" THEN runs[t] ELSE runs[t] + 1)
           /\ invoked' = Set(invoked, t, IF outcome = "config" THEN invoked[t]
                                          ELSE Append(invoked[t], submodels(t)[idx[t]]))
           /\ IF outcome = "ok"
              THEN /\ err' = err
                   /\ IF idx[t] < Len(submodels(t))
                      THEN idx' = Set(idx, t, idx[t] + 1) /\ pc' = pc
                      ELSE idx' = Set(idx, t, 1) /\ pc' = Set(pc, t, next)
              ELSE Raise(t, outcome, handler) /\ idx' = idx

\* variant of ConvertRun: the graph of a sub-component is copied as soon as
\* its footprint has been read
ConvertRunCopiesEach(t) ==
    /\ pc[t] = "cv_run"
    /\ EngineStep(t, isdir(fs, in_dir[t]), "cv_copy", "cv_except")
    /\ fs' = IF pc'[t] # "cv_except" /\ isdir(fs, out_dir[t])
             THEN [fs EXCEPT ![out_dir[t]].graphs = @ \cup {submodels(t)[idx[t]]}]
             ELSE fs
    /\ UNCHANGED <<opts, config, raw, top, called, in_dir, out_dir, model_index,
                   converted_dir, optimized_dir, ret, calls, last_convert, last_optimize,
                   log, args, overlap, hit, crashed, pipeline, olive_config, prior, loader>>

ConvertRun(t) ==
    /\ pc[t] = "cv_run"
    /\ EngineStep(t, isdir(fs, in_dir[t]), "cv_copy", "cv_except")
    /\ UNCHANGED <<fs, opts, config, raw, top, called, in_dir, out_dir, model_index,
                   converted_dir, optimized_dir, ret, calls, last_convert, last_optimize,
                   log, args, overlap, hit, crashed, pipeline, olive_config, prior, loader>>

\* variant of CopyStep: the manifest is written along with each graph file
CopyStepWithManifest(t, next, handler) ==
    \E fail \in BOOLEAN :
        LET submodel == submodels(t)[idx[t]]
        IN IF ~isdir(fs, out_dir[t])
           THEN Raise(t, "mkdir", handler) /\ UNCHANGED <<fs, idx>>
           ELSE IF fail
           THEN Raise(t, "copyfile", handler) /\ UNCHANGED <<fs, idx>>
           ELSE /\ fs' = [fs EXCEPT ![out_dir[t]].graphs = @ \cup {submodel},
                                    ![out_dir[t]].manifest = ManifestFile(MergeSource(t))]
                /\ err' = err
                /\ IF idx[t] < Len(submodels(t))
                   THEN idx' = Set(idx, t, idx[t] + 1) /\ pc' = pc
                   ELSE idx' = Set(idx, t, 0) /\ pc' = Set(pc, t, next)

\* variant of CopyStep: the output directory is created when it is missing
CopyStepMakesParent(t, next, handler) ==
    \E fail \in BOOLEAN :
        LET submodel == submodels(t)[idx[t]]
            f1 == IF isdir(fs, out_dir[t]) THEN fs ELSE WriteDir(fs, out_dir[t], EmptyDir)
        IN IF fail
           THEN Raise(t, "copyfile", handler) /\ UNCHANGED <<fs, idx>>
           ELSE /\ fs' = [f1 EXCEPT ![out_dir[t]].graphs = @ \cup {submodel}]
                /\ err' = err
                /\ IF idx[t] < Len(submodels(t))
                   THEN idx' = Set(idx, t, idx[t] + 1) /\ pc' = pc
                   ELSE idx' = Set(idx, t, 0) /\ pc' = Set(pc, t, next)

\* one iteration of the copy loop
CopyStep(t, next, handler) ==
    \E fail \in BOOLEAN :
        LET submodel == submodels(t)[idx[t]]
        IN IF ~isdir(fs, out_dir[t])
           THEN Raise(t, "mkdir", handler) /\ UNCHANGED <<fs, idx>>
           ELSE IF fail
           THEN Raise(t, "copyfile", handler) /\ UNCHANGED <<fs, idx>>
           ELSE /\ fs' = [fs EXCEPT ![out_dir[t]].graphs = @ \cup {submodel}]
                /\ err' = err
                /\ IF idx[t] < Len(submodels(t))
                   THEN idx' = Set(idx, t, idx[t] + 1) /\ pc' = pc
                   ELSE idx' = Set(idx, t, 0) /\ pc' = Set(pc, t, next)

ConvertCopy(t) ==
    /\ pc[t] = "cv_copy"
    /\ CopyStep(t, "cv_pipeline", "cv_except")
    /\ UNCHANGED <<opts, config, raw, top, called, in_dir, out_dir, runs, model_index,
                   converted_dir, optimized_dir, ret, calls, last_convert, last_optimize,
                   log, args, invoked, overlap, hit, crashed, pipeline, olive_config, prior, loader>>

\* reload the graphs, resolve the other sub-components, build the transient
\* pipeline and serialize its manifest
PipelineStep(t, next, handler) ==
    \E o \in PipelineOutcomes, keys \in SerializedKeySets :
        LET loadable == /\ isdir(fs, out_dir[t])
                        /\ Range(submodels(t)) \subseteq fs[out_dir[t]].graphs
            outcome == IF o = "ok" /\ ~loadable THEN "load_model" ELSE o
        IN IF outcome = "ok"
           THEN /\ model_index' = Set(model_index, t, [k \in keys |-> SerializedValue])
                /\ pc' = Set(pc, t, next)
                /\ err' = err
           ELSE Raise(t, outcome, handler) /\ model_index' = model_index

ConvertPipeline(t) ==
    /\ pc[t] = "cv_pipeline"
    /\ PipelineStep(t, "cv_manifest", "cv_except")
    /\ UNCHANGED <<fs, opts, config, raw, top, called, in_dir, out_dir, idx, runs,
                   converted_dir, optimized_dir, ret, calls, last_convert, last_optimize,
                   log, args, invoked, overlap, hit, crashed, pipeline, olive_config, prior, loader>>

ConvertManifest(t) ==
    /\ pc[t] = "cv_manifest"
    /\ \E fail \in BOOLEAN :
        IF fail \/ ~isdir(fs, out_dir[t])
        THEN Raise(t, "model_index", "cv_except") /\ UNCHANGED <<fs, converted_dir>>
        ELSE /\ fs' = [fs EXCEPT ![out_dir[t]].manifest = ManifestFile(MergedIndex(t))]
             /\ converted_dir' = Set(converted_dir, t, out_dir[t])
             /\ pc' = Set(pc, t, "cv_return")
             /\ err' = err
    /\ UNCHANGED <<opts, config, raw, top, called, in_dir, out_dir, idx, runs, model_index,
                   optimized_dir, ret, calls, last_convert, last_optimize,
                   log, args, invoked, overlap, hit, crashed, pipeline, olive_config, prior, loader>>

\* variant of ConvertExcept: the handler removes the output directory only
ConvertExceptKeepsScratch(t) ==
    /\ pc[t] = "cv_except"
    /\ fs' = rmtree(fs, out_dir[t])
    /\ converted_dir' = Set(converted_dir, t, None)
    /\ pc' = Set(pc, t, "cv_return")
    /\ err' = Set(err, t, "handled")
    /\ idx' = Set(idx, t, 0)
    /\ UNCHANGED <<opts, config, raw, top, called, in_dir, out_dir, runs, model_index,
                   optimized_dir, ret, calls, last_convert, last_optimize,
                   log, args, invoked, overlap, hit, crashed, pipeline, olive_config, prior, loader>>

\* variant of ConvertExcept: the handler removes the scratch directory only
ConvertExceptKeepsOutDir(t) ==
    /\ pc[t] = "cv_except"
    /\ fs' = rmtree(fs, onnx_temp_dir)
    /\ converted_dir' = Set(converted_dir, t, None)
    /\ pc' = Set(pc, t, "cv_return")
    /\ err' = Set(err, t, "handled")
    /\ idx' = Set(idx, t, 0)
    /\ UNCHANGED <<opts, config, raw, top, called, in_dir, out_dir, runs, model_index,
                   optimized_dir, ret, calls, last_convert, last_optimize,
                   log, args, invoked, overlap, hit, crashed, pipeline, olive_config, prior, loader>>

ConvertExcept(t) ==
    /\ pc[t] = "cv_except"
    /\ fs' = rmtree(rmtree(fs, onnx_temp_dir), out_dir[t])
    /\ converted_dir' = Set(converted_dir, t, None)
    /\ pc' = Set(pc, t, "cv_return")
    /\ err' = Set(err, t, "handled")
    /\ idx' = Set(idx, t, 0)
    /\ UNCHANGED <<opts, config, raw, top, called, in_dir, out_dir, runs, model_index,
                   optimized_dir, ret, calls, last_convert, last_optimize,
                   log, args, invoked, overlap, hit, crashed, pipeline, olive_config, prior, loader>>


\* variant of Advisories: the precision-risk advisory is always emitted
AdvisoriesAlways(height, width) == {"experimental", "precision"}

\* Line 517-519: the advisories emitted when optimization is enabled
Advisories(height, width) ==
    {"experimental"} \cup (IF width # height THEN {"precision"} ELSE {})

\* Line 510-516: convert has returned to its caller
AfterConvert(t) ==
    /\ pc[t] = "cv_return"
    /\ last_convert' = IF top[t] = "convert" /\ converted_dir[t] # None
                       THEN ConvertCall(t) ELSE last_convert
    /\ IF top[t] = "convert"
       THEN /\ ret' = Set(ret, t, [kind |-> "returned", via |-> "convert", cls |-> "",
                                   path |-> converted_dir[t]])
            /\ pc' = Set(pc, t, "done")
            /\ UNCHANGED <<called, in_dir, idx, runs, err, log, invoked, hit>>
       ELSE IF converted_dir[t] = None
       THEN /\ pc' = Set(pc, t, "fallback_a")
            /\ runs' = Set(runs, t, 0)
            /\ invoked' = Set(invoked, t, << >>)
            /\ UNCHANGED <<called, in_dir, idx, err, ret, log, hit>>
       ELSE IF opts.onnx_enable_olive
       THEN /\ log' = Set(log, t, Advisories(args[t].height, args[t].width))
            /\ runs' = Set(runs, t, 0)
            /\ invoked' = Set(invoked, t, << >>)
            /\ pc' = Set(pc, t, "olive")
            /\ UNCHANGED <<called, in_dir, idx, err, ret, hit>>
       ELSE /\ pc' = Set(pc, t, "assemble")
            /\ runs' = Set(runs, t, 0)
            /\ invoked' = Set(invoked, t, << >>)
            /\ UNCHANGED <<called, in_dir, idx, err, ret, log, hit>>
    /\ UNCHANGED <<fs, opts, config, raw, top, out_dir, model_index, converted_dir,
                   optimized_dir, calls, last_optimize,
                   args, overlap, crashed, pipeline, olive_config, prior, loader>>

\* -------------------------------------------------------------- optimize
\* Line 520: preprocess calls optimize on the converted directory
EnterOptimize(t) ==
    /\ pc[t] = "olive"
    /\ called' = Set(called, t, called[t] \cup {"optimize"})
    /\ in_dir' = Set(in_dir, t, converted_dir[t])
    /\ idx' = Set(idx, t, 0)
    /\ hit' = Set(hit, t, NoHit)
    /\ err' = Set(err, t, "")
    /\ pc' = Set(pc, t, "op_check")
    /\ UNCHANGED <<fs, opts, config, raw, top, out_dir, runs, model_index, converted_dir,
                   optimized_dir, ret, calls, last_convert, last_optimize,
                   log, args, invoked, overlap, crashed, pipeline, olive_config, prior, loader>>

\* direct call of optimize on the conversion entry of the source; the caller
\* sets the dimensions of the run configuration first, as preprocess does
CallOptimize(t, height, width) ==
    /\ StartCall(t, "optimize")
    /\ config' = [config EXCEPT !.width = width, !.height = height]
    /\ args' = Set(args, t, [batch_size |-> config.batch_size, height |-> height, width |-> width])
    /\ called' = Set(called, t, {"optimize"})
    /\ in_dir' = Set(in_dir, t, join(onnx_cached_models_path, raw[t].original_filename))
    /\ pc' = Set(pc, t, "op_check")
    /\ UNCHANGED <<fs, opts, raw, last_optimize,
                   crashed, prior, loader>>

\* variant of OptimizeCheck: the key carries the execution target as well
OptimizeCheckKeyedByTarget(t) ==
    /\ pc[t] = "op_check"
    /\ LET d == join(onnx_cached_models_path,
                     OptimizedName(raw[t].original_filename, config.width, config.height)
                         \o "-" \o opts.onnx_execution_provider)
       IN IF isdir(fs, d)
          THEN /\ out_dir' = Set(out_dir, t, d)
               /\ optimized_dir' = Set(optimized_dir, t, d)
               /\ hit' = Set(hit, t, Seen(fs, d))
               /\ pc' = Set(pc, t, "op_return")
          ELSE /\ out_dir' = Set(out_dir, t, IF opts.onnx_cache_optimized THEN d ELSE onnx_temp_dir)
               /\ optimized_dir' = optimized_dir
               /\ hit' = Set(hit, t, Missed(fs))
               /\ pc' = Set(pc, t, "op_seed")
    /\ UNCHANGED <<fs, opts, config, raw, top, called, in_dir, idx, runs, model_index,
                   err, converted_dir, ret, calls, last_convert, last_optimize,
                   log, args, invoked, overlap, crashed, pipeline, olive_config, prior, loader>>

OptimizeCheck(t) ==
    /\ pc[t] = "op_check"
    /\ LET d == join(onnx_cached_models_path,
                     OptimizedName(raw[t].original_filename, config.width, config.height))
       IN IF isdir(fs, d)
          THEN /\ out_dir' = Set(out_dir, t, d)
               /\ optimized_dir' = Set(optimized_dir, t, d)
               /\ hit' = Set(hit, t, Seen(fs, d))
               /\ pc' = Set(pc, t, "op_return")
          ELSE /\ out_dir' = Set(out_dir, t, IF opts.onnx_cache_optimized THEN d ELSE onnx_temp_dir)
               /\ optimized_dir' = optimized_dir
               /\ hit' = Set(hit, t, Missed(fs))
               /\ pc' = Set(pc, t, "op_seed")
    /\ UNCHANGED <<fs, opts, config, raw, top, called, in_dir, idx, runs, model_index,
                   err, converted_dir, ret, calls, last_convert, last_optimize,
                   log, args, invoked, overlap, crashed, pipeline, olive_config, prior, loader>>

OptimizeSeed(t) ==
    /\ pc[t] = "op_seed"
    /\ \E fail \in BOOLEAN :
        IF opts.onnx_cache_optimized
        THEN IF fail \/ ~isdir(fs, in_dir[t]) \/ isdir(fs, out_dir[t])
             THEN Raise(t, "copytree", "op_except") /\ UNCHANGED <<fs, idx>>
             ELSE /\ fs' = copytree(fs, in_dir[t], out_dir[t])
                  /\ idx' = Set(idx, t, 1)
                  /\ pc' = Set(pc, t, "op_run")
                  /\ err' = err
        ELSE IF fail
             THEN Raise(t, "import", "op_except") /\ UNCHANGED <<fs, idx>>
             ELSE /\ idx' = Set(idx, t, 1)
                  /\ pc' = Set(pc, t, "op_run")
                  /\ UNCHANGED <<fs, err>>
    /\ UNCHANGED <<opts, config, raw, top, called, in_dir, out_dir, runs, model_index,
                   converted_dir, optimized_dir, ret, calls, last_convert, last_optimize,
                   log, args, invoked, overlap, hit, crashed, pipeline, olive_config, prior, loader>>

\* the configuration optimize builds for one sub-component: the file of the
\* architecture, the execution target and the float16 flag
OliveConfig(t) ==
    [valid |-> TRUE,
     file |-> (IF raw[t]._is_sdxl THEN "sdxl" ELSE "sd") \o "_" \o submodels(t)[idx[t]],
     execution_provider |-> opts.onnx_execution_provider,
     float16 |-> opts.onnx_olive_float16]

OptimizeRun(t) ==
    /\ pc[t] = "op_run"
    /\ EngineStep(t, /\ isdir(fs, in_dir[t])
                     /\ submodels(t)[idx[t]] \in fs[in_dir[t]].graphs,
                  "op_copy", "op_except")
    /\ olive_config' = IF runs'[t] > runs[t] THEN Set(olive_config, t, OliveConfig(t))
                       ELSE olive_config
    /\ UNCHANGED <<fs, opts, config, raw, top, called, in_dir, out_dir, model_index,
                   converted_dir, optimized_dir, ret, calls, last_convert, last_optimize,
                   log, args, overlap, hit, crashed, pipeline, prior, loader>>

OptimizeCopy(t) ==
    /\ pc[t] = "op_copy"
    /\ CopyStep(t, "op_pipeline", "op_except")
    /\ UNCHANGED <<opts, config, raw, top, called, in_dir, out_dir, runs, model_index,
                   converted_dir, optimized_dir, ret, calls, last_convert, last_optimize,
                   log, args, invoked, overlap, hit, crashed, pipeline, olive_config, prior, loader>>

OptimizePipeline(t) ==
    /\ pc[t] = "op_pipeline"
    /\ PipelineStep(t, "op_manifest", "op_except")
    /\ UNCHANGED <<fs, opts, config, raw, top, called, in_dir, out_dir, idx, runs,
                   converted_dir, optimized_dir, ret, calls, last_convert, last_optimize,
                   log, args, invoked, overlap, hit, crashed, pipeline, olive_config, prior, loader>>

OptimizeManifest(t) ==
    /\ pc[t] = "op_manifest"
    /\ \E fail \in BOOLEAN :
        IF fail \/ ~isdir(fs, out_dir[t])
        THEN Raise(t, "model_index", "op_except") /\ UNCHANGED <<fs, optimized_dir>>
        ELSE /\ fs' = [fs EXCEPT ![out_dir[t]].manifest = ManifestFile(MergedIndex(t))]
             /\ optimized_dir' = Set(optimized_dir, t, out_dir[t])
             /\ pc' = Set(pc, t, "op_return")
             /\ err' = err
    /\ UNCHANGED <<opts, config, raw, top, called, in_dir, out_dir, idx, runs, model_index,
                   converted_dir, ret, calls, last_convert, last_optimize,
                   log, args, invoked, overlap, hit, crashed, pipeline, olive_config, prior, loader>>

\* variant of OptimizeExcept: the handler removes the scratch directory only
OptimizeExceptKeepsOutDir(t) ==
    /\ pc[t] = "op_except"
    /\ fs' = rmtree(fs, onnx_temp_dir)
    /\ optimized_dir' = Set(optimized_dir, t, None)
    /\ pc' = Set(pc, t, "op_return")
    /\ err' = Set(err, t, "handled")
    /\ idx' = Set(idx, t, 0)
    /\ UNCHANGED <<opts, config, raw, top, called, in_dir, out_dir, runs, model_index,
                   converted_dir, ret, calls, last_convert, last_optimize,
                   log, args, invoked, overlap, hit, crashed, pipeline, olive_config, prior, loader>>

OptimizeExcept(t) ==
    /\ pc[t] = "op_except"
    /\ fs' = rmtree(rmtree(fs, onnx_temp_dir), out_dir[t])
    /\ optimized_dir' = Set(optimized_dir, t, None)
    /\ pc' = Set(pc, t, "op_return")
    /\ err' = Set(err, t, "handled")
    /\ idx' = Set(idx, t, 0)
    /\ UNCHANGED <<opts, config, raw, top, called, in_dir, out_dir, runs, model_index,
                   converted_dir, ret, calls, last_convert, last_optimize,
                   log, args, invoked, overlap, hit, crashed, pipeline, olive_config, prior, loader>>

\* variant of AfterOptimize: preprocess assembles even when optimize returned None
AfterOptimizeNoFallback(t) ==
    /\ pc[t] = "op_return"
    /\ last_optimize' = IF optimized_dir[t] # None THEN OptimizeCall(t) ELSE last_optimize
    /\ IF top[t] = "optimize"
       THEN /\ ret' = Set(ret, t, [kind |-> "returned", via |-> "optimize", cls |-> "",
                                   path |-> optimized_dir[t]])
            /\ pc' = Set(pc, t, "done")
            /\ runs' = runs
            /\ invoked' = invoked
       ELSE /\ pc' = Set(pc, t, "assemble")
            /\ runs' = Set(runs, t, 0)
            /\ invoked' = Set(invoked, t, << >>)
            /\ ret' = ret
    /\ UNCHANGED <<fs, opts, config, raw, top, called, in_dir, out_dir, idx,
                   model_index, err, converted_dir, optimized_dir, calls, last_convert,
                   log, args, overlap, hit, crashed, pipeline, olive_config, prior, loader>>

\* Line 520-524: optimize has returned to its caller
AfterOptimize(t) ==
    /\ pc[t] = "op_return"
    /\ last_optimize' = IF optimized_dir[t] # None THEN OptimizeCall(t) ELSE last_optimize
    /\ IF top[t] = "optimize"
       THEN /\ ret' = Set(ret, t, [kind |-> "returned", via |-> "optimize", cls |-> "",
                                   path |-> optimized_dir[t]])
            /\ pc' = Set(pc, t, "done")
            /\ runs' = runs
            /\ invoked' = invoked
       ELSE /\ pc' = Set(pc, t, IF optimized_dir[t] = None THEN "fallback_b" ELSE "assemble")
            /\ runs' = Set(runs, t, 0)
            /\ invoked' = Set(invoked, t, << >>)
            /\ ret' = ret
    /\ UNCHANGED <<fs, opts, config, raw, top, called, in_dir, out_dir, idx,
                   model_index, err, converted_dir, optimized_dir, calls, last_convert,
                   log, args, overlap, hit, crashed, pipeline, olive_config, prior, loader>>

\* ------------------------------------------------------------ preprocess
GenericPipeline(is_sdxl) ==
    IF is_sdxl THEN "StableDiffusionXLPipeline" ELSE "StableDiffusionPipeline"
OnnxPipeline(is_sdxl) ==
    IF is_sdxl THEN "OnnxStableDiffusionXLPipeline" ELSE "OnnxStableDiffusionPipeline"

\* load_pipeline can only build a pipeline from a directory that holds a
\* manifest, or from a packed file that exists
Loadable(f, path) ==
    IF isdir(f, path) THEN f[path].manifest.exists ELSE path \in SrcFiles

\* load_pipeline followed by derive_properties, from a terminal branch
LoadOutcome(f, branch, cls, path, fail) ==
    [kind |-> IF fail \/ ~Loadable(f, path) THEN "raised" ELSE "returned",
     via |-> branch, cls |-> cls, path |-> path]

\* Line 190-194: the object load_pipeline builds; its scheduler is the one the
\* manifest of the directory declares, or the one of the packed file
LoadedPipeline(f, path) ==
    [sd_model_hash |-> "unset", sd_checkpoint_info |-> "unset", sd_model_checkpoint |-> "unset",
     scheduler |-> IF isdir(f, path)
                   THEN LET d == load_init_dict(f[path].manifest.body)
                        IN IF "scheduler" \in DOMAIN d
                           THEN load_submodel(path, "scheduler", d["scheduler"])
                           ELSE NullValue
                   ELSE SingleFileScheduler(path)]

\* variant of derive_properties: the pipeline keeps the scheduler it was loaded with
derive_propertiesKeepsScheduler(self, p) ==
    [p EXCEPT !.sd_model_hash = self.sd_model_hash,
              !.sd_checkpoint_info = self.sd_checkpoint_info,
              !.sd_model_checkpoint = self.sd_model_checkpoint]

\* Line 270-275
derive_properties(self, p) ==
    [p EXCEPT !.sd_model_hash = self.sd_model_hash,
              !.sd_checkpoint_info = self.sd_checkpoint_info,
              !.sd_model_checkpoint = self.sd_model_checkpoint,
              !.scheduler = self.scheduler]

\* the pipeline a terminal branch holds after load_pipeline and derive_properties
Built(t, o) ==
    IF o.kind = "raised" THEN NoPipeline ELSE derive_properties(raw[t], LoadedPipeline(fs, o.path))

\* Line 498-503: the derived fields of the run configuration
cross_attention_dim(is_sdxl, height) == IF is_sdxl THEN 2048 ELSE height + 256
time_ids_size(is_sdxl) == IF is_sdxl THEN 6 ELSE 5

\* variant of Preprocess: the width of the run configuration is not written
PreprocessKeepsWidth(t, batch_size, height, width) ==
    /\ StartCall(t, "preprocess")
    /\ args' = Set(args, t, [batch_size |-> batch_size, height |-> height, width |-> width])
    /\ config' = [width |-> config.width, height |-> height, batch_size |-> batch_size,
                  is_sdxl |-> raw[t]._is_sdxl,
                  cross_attention_dim |-> cross_attention_dim(raw[t]._is_sdxl, height),
                  time_ids_size |-> time_ids_size(raw[t]._is_sdxl)]
    /\ called' = Set(called, t, {"convert"})
    /\ in_dir' = Set(in_dir, t, IF isdir(fs, raw[t].path) THEN raw[t].path ELSE onnx_temp_dir)
    /\ pc' = Set(pc, t, "cv_check")
    /\ UNCHANGED <<fs, opts, raw, last_optimize,
                   crashed, prior, loader>>

Preprocess(t, batch_size, height, width) ==
    /\ StartCall(t, "preprocess")
    /\ args' = Set(args, t, [batch_size |-> batch_size, height |-> height, width |-> width])
    /\ config' = [width |-> width, height |-> height, batch_size |-> batch_size,
                  is_sdxl |-> raw[t]._is_sdxl,
                  cross_attention_dim |-> cross_attention_dim(raw[t]._is_sdxl, height),
                  time_ids_size |-> time_ids_size(raw[t]._is_sdxl)]
    /\ called' = Set(called, t, {"convert"})
    /\ in_dir' = Set(in_dir, t, IF isdir(fs, raw[t].path) THEN raw[t].path ELSE onnx_temp_dir)
    /\ pc' = Set(pc, t, "cv_check")
    /\ UNCHANGED <<fs, opts, raw, last_optimize,
                   crashed, prior, loader>>

\* variant of FallbackA: the pipeline is built from the directory handed to convert
FallbackAFromInDir(t) ==
    /\ pc[t] = "fallback_a"
    /\ \E fail \in BOOLEAN :
        LET o == LoadOutcome(fs, "fallback_a", GenericPipeline(raw[t]._is_sdxl), in_dir[t], fail)
        IN /\ ret' = Set(ret, t, o)
           /\ pipeline' = Set(pipeline, t, Built(t, o))
    /\ pc' = Set(pc, t, "done")
    /\ UNCHANGED <<fs, opts, config, raw, top, called, in_dir, out_dir, idx, runs,
                   model_index, err, converted_dir, optimized_dir, calls,
                   last_convert, last_optimize,
                   log, args, invoked, overlap, hit, crashed, olive_config, prior, loader>>

FallbackA(t) ==
    /\ pc[t] = "fallback_a"
    /\ \E fail \in BOOLEAN :
        LET o == LoadOutcome(fs, "fallback_a", GenericPipeline(raw[t]._is_sdxl), raw[t].path, fail)
        IN /\ ret' = Set(ret, t, o)
           /\ pipeline' = Set(pipeline, t, Built(t, o))
    /\ pc' = Set(pc, t, "done")
    /\ UNCHANGED <<fs, opts, config, raw, top, called, in_dir, out_dir, idx, runs,
                   model_index, err, converted_dir, optimized_dir, calls, last_convert, last_optimize,
                   log, args, invoked, overlap, hit, crashed, olive_config, prior, loader>>

FallbackB(t) ==
    /\ pc[t] = "fallback_b"
    /\ \E fail \in BOOLEAN :
        LET o == LoadOutcome(fs, "fallback_b", OnnxPipeline(raw[t]._is_sdxl), converted_dir[t], fail)
        IN /\ ret' = Set(ret, t, o)
           /\ pipeline' = Set(pipeline, t, Built(t, o))
    /\ pc' = Set(pc, t, "done")
    /\ UNCHANGED <<fs, opts, config, raw, top, called, in_dir, out_dir, idx, runs,
                   model_index, err, converted_dir, optimized_dir, calls, last_convert, last_optimize,
                   log, args, invoked, overlap, hit, crashed, olive_config, prior, loader>>

\* out_dir of preprocess
FinalDir(t) == IF optimized_dir[t] # None THEN optimized_dir[t] ELSE converted_dir[t]

\* Line 526: the final pipeline
Assemble(t) ==
    /\ pc[t] = "assemble"
    /\ \E fail \in BOOLEAN :
        LET o == LoadOutcome(fs, "success", OnnxPipeline(raw[t]._is_sdxl), FinalDir(t), fail)
        IN /\ pipeline' = Set(pipeline, t, Built(t, o))
           /\ IF o.kind = "raised"
              THEN ret' = Set(ret, t, o) /\ pc' = Set(pc, t, "done")
              ELSE ret' = Set(ret, t, [o EXCEPT !.kind = "built"]) /\ pc' = Set(pc, t, "cleanup")
    /\ UNCHANGED <<fs, opts, config, raw, top, called, in_dir, out_dir, idx, runs,
                   model_index, err, converted_dir, optimized_dir, calls, last_convert, last_optimize,
                   log, args, invoked, overlap, hit, crashed, olive_config, prior, loader>>

\* variant of Cleanup: the converted directory is kept whatever the setting
CleanupKeepsConverted(t) ==
    /\ pc[t] = "cleanup"
    /\ ret' = Set(ret, t, [ret[t] EXCEPT !.kind = "returned"])
    /\ fs' = rmtree(fs, onnx_temp_dir)
    /\ pc' = Set(pc, t, "done")
    /\ UNCHANGED <<opts, config, raw, top, called, in_dir, out_dir, idx, runs,
                   model_index, err, converted_dir, optimized_dir, calls,
                   last_convert, last_optimize,
                   log, args, invoked, overlap, hit, crashed, pipeline, olive_config, prior, loader>>

\* variant of Cleanup: a converted directory that convert found cached is kept
CleanupSparesHit(t) ==
    /\ pc[t] = "cleanup"
    /\ ret' = Set(ret, t, [ret[t] EXCEPT !.kind = "returned"])
    /\ fs' = rmtree(IF opts.onnx_cache_converted \/ hit[t].valid
                    THEN fs ELSE rmtree(fs, converted_dir[t]),
                    onnx_temp_dir)
    /\ pc' = Set(pc, t, "done")
    /\ UNCHANGED <<opts, config, raw, top, called, in_dir, out_dir, idx, runs,
                   model_index, err, converted_dir, optimized_dir, calls,
                   last_convert, last_optimize,
                   log, args, invoked, overlap, hit, crashed, pipeline, olive_config, prior, loader>>

\* variant of Cleanup: the scratch directory is left in place
CleanupKeepsTemp(t) ==
    /\ pc[t] = "cleanup"
    /\ IF ~opts.onnx_cache_converted /\ ~isdir(fs, converted_dir[t])
       THEN /\ ret' = Set(ret, t, [ret[t] EXCEPT !.kind = "raised"])
            /\ fs' = fs
       ELSE /\ ret' = Set(ret, t, [ret[t] EXCEPT !.kind = "returned"])
            /\ fs' = IF opts.onnx_cache_converted THEN fs ELSE rmtree(fs, converted_dir[t])
    /\ pc' = Set(pc, t, "done")
    /\ UNCHANGED <<opts, config, raw, top, called, in_dir, out_dir, idx, runs,
                   model_index, err, converted_dir, optimized_dir, calls,
                   last_convert, last_optimize,
                   log, args, invoked, overlap, hit, crashed, pipeline, olive_config, prior, loader>>

\* Line 528-532
Cleanup(t) ==
    /\ pc[t] = "cleanup"
    /\ IF ~opts.onnx_cache_converted /\ ~isdir(fs, converted_dir[t])
       THEN /\ ret' = Set(ret, t, [ret[t] EXCEPT !.kind = "raised"])
            /\ fs' = fs
       ELSE /\ ret' = Set(ret, t, [ret[t] EXCEPT !.kind = "returned"])
            /\ fs' = rmtree(IF opts.onnx_cache_converted THEN fs ELSE rmtree(fs, converted_dir[t]),
                            onnx_temp_dir)
    /\ pc' = Set(pc, t, "done")
    /\ UNCHANGED <<opts, config, raw, top, called, in_dir, out_dir, idx, runs,
                   model_index, err, converted_dir, optimized_dir, calls, last_convert, last_optimize,
                   log, args, invoked, overlap, hit, crashed, pipeline, olive_config, prior, loader>>

\* the caller takes the outcome; the frame's locals go out of scope
Done(t) ==
    /\ pc[t] = "done"
    /\ pc' = Set(pc, t, "idle")
    /\ top' = Set(top, t, "")
    /\ called' = Set(called, t, {})
    /\ in_dir' = Set(in_dir, t, None)
    /\ out_dir' = Set(out_dir, t, None)
    /\ idx' = Set(idx, t, 0)
    /\ runs' = Set(runs, t, 0)
    /\ model_index' = Set(model_index, t, EmptyDict)
    /\ err' = Set(err, t, "")
    /\ converted_dir' = Set(converted_dir, t, None)
    /\ optimized_dir' = Set(optimized_dir, t, None)
    /\ ret' = Set(ret, t, NoRet)
    /\ log' = Set(log, t, {})
    /\ args' = Set(args, t, NoArgs)
    /\ invoked' = Set(invoked, t, << >>)
    /\ overlap' = Set(overlap, t, FALSE)
    /\ hit' = Set(hit, t, NoHit)
    /\ pipeline' = Set(pipeline, t, NoPipeline)
    /\ olive_config' = Set(olive_config, t, NoOliveConfig)
    /\ prior' = IF top[t] = "preprocess"
                THEN Set(prior, t, IF ret[t].kind = "returned" THEN ret[t].via
                                   ELSE "raised:" \o ret[t].via)
                ELSE prior
    /\ UNCHANGED <<fs, opts, config, raw, calls, last_convert, last_optimize,
                   crashed, loader>>

\* a new OnnxRawPipeline replaces the frame's instance
Construct(t, is_sdxl, path) ==
    /\ pc[t] = "idle"
    /\ calls < MaxCalls
    /\ calls' = calls + 1
    /\ AgeLastConvert
    /\ IF isdir(fs, path)
       THEN /\ raw' = Set(raw, t, RawFromDir(is_sdxl, path, fs))
            /\ fs' = fs
       ELSE \E outcome \in InitOutcomes :
            /\ raw' = Set(raw, t, RawFromFile(is_sdxl, path, outcome))
            /\ fs' = TempAfterInit(fs, outcome)
    /\ prior' = Set(prior, t, "")
    /\ UNCHANGED <<opts, config, frame, last_optimize,
                   crashed, loader>>

\* the user changes the settings between calls
SetOpts ==
    /\ \A t \in Threads : pc[t] = "idle"
    /\ calls < MaxCalls
    /\ calls' = calls + 1
    /\ opts' \in [onnx_cache_converted : BOOLEAN, onnx_cache_optimized : BOOLEAN,
                  onnx_enable_olive : BOOLEAN,
                  onnx_execution_provider : {opts.onnx_execution_provider},
                  onnx_olive_float16 : {opts.onnx_olive_float16}] \ {opts}
    /\ UNCHANGED <<fs, config, raw, frame, last_convert, last_optimize,
                   crashed, prior, loader>>

\* the body of convert after its cache check
ConvertMiss(t) ==
    \/ ConvertSeed(t)
    \/ ConvertRun(t)
    \/ ConvertCopy(t)
    \/ ConvertPipeline(t)
    \/ ConvertManifest(t)
    \/ ConvertExcept(t)

\* the body of optimize
OptimizeSteps(t) ==
    \/ OptimizeCheck(t)
    \/ OptimizeSeed(t)
    \/ OptimizeRun(t)
    \/ OptimizeCopy(t)
    \/ OptimizePipeline(t)
    \/ OptimizeManifest(t)
    \/ OptimizeExcept(t)

Step(t) ==
    \/ \E is_sdxl \in BOOLEAN, path \in SrcPaths : Construct(t, is_sdxl, path)
    \/ \E batch_size \in BatchSizes, height \in Dims, width \in Dims :
            Preprocess(t, batch_size, height, width)
    \/ CallConvert(t)
    \/ \E height \in Dims, width \in Dims : CallOptimize(t, height, width)
    \/ ConvertCheck(t)
    \/ ConvertMiss(t)
    \/ AfterConvert(t)
    \/ EnterOptimize(t)
    \/ OptimizeSteps(t)
    \/ AfterOptimize(t)
    \/ FallbackA(t)
    \/ FallbackB(t)
    \/ Assemble(t)
    \/ Cleanup(t)
    \/ Done(t)

\* non-overlapping operation: one frame makes all the calls
Next == Step("main") \/ SetOpts

Spec == Init /\ [][Next]_vars


\* operation that starts with an empty cache root
InitEmpty ==
    /\ Init
    /\ \A d \in DOMAIN fs : d[1] # onnx_cached_models_path[1]

SpecEmpty == InitEmpty /\ [][Next]_vars

\* the places of a stage between its cache check and its return
InStage(t) == pc[t] \in {"cv_seed", "cv_run", "cv_copy", "cv_pipeline", "cv_manifest", "cv_except",
                         "op_seed", "op_run", "op_copy", "op_pipeline", "op_manifest", "op_except"}

\* the process stops inside convert or optimize; what the stage has written so
\* far stays on disk, and the next process constructs the raw pipeline again
\* for the same source
Crash(t) ==
    /\ InStage(t)
    /\ crashed' = IF isdir(fs, out_dir[t]) /\ out_dir[t] # onnx_temp_dir
                  THEN crashed \cup {out_dir[t]} ELSE crashed
    /\ IF raw[t].path \in SrcDirs
       THEN /\ raw' = Set(raw, t, RawFromDir(raw[t]._is_sdxl, raw[t].path, fs))
            /\ fs' = fs
       ELSE \E outcome \in InitOutcomes :
            /\ raw' = Set(raw, t, RawFromFile(raw[t]._is_sdxl, raw[t].path, outcome))
            /\ fs' = TempAfterInit(fs, outcome)
    /\ pc' = Set(pc, t, "idle")
    /\ top' = Set(top, t, "")
    /\ called' = Set(called, t, {})
    /\ in_dir' = Set(in_dir, t, None)
    /\ out_dir' = Set(out_dir, t, None)
    /\ idx' = Set(idx, t, 0)
    /\ runs' = Set(runs, t, 0)
    /\ model_index' = Set(model_index, t, EmptyDict)
    /\ err' = Set(err, t, "")
    /\ converted_dir' = Set(converted_dir, t, None)
    /\ optimized_dir' = Set(optimized_dir, t, None)
    /\ ret' = Set(ret, t, NoRet)
    /\ log' = Set(log, t, {})
    /\ args' = Set(args, t, NoArgs)
    /\ invoked' = Set(invoked, t, << >>)
    /\ overlap' = Set(overlap, t, FALSE)
    /\ hit' = Set(hit, t, NoHit)
    /\ last_convert' = NoCall
    /\ pipeline' = Set(pipeline, t, NoPipeline)
    /\ olive_config' = Set(olive_config, t, NoOliveConfig)
    /\ prior' = Set(prior, t, "")
    /\ UNCHANGED <<opts, config, calls, last_optimize, loader>>

\* operation from an empty cache root in which the process can stop inside a stage
NextCrash == Next \/ Crash("main")

SpecCrash == InitEmpty /\ [][NextCrash]_vars

\* two raw pipelines for sources that share the file name "m": a diffusers
\* directory and a packed file, of any architecture; left is what the cache root
\* holds
PairFrom(left) ==
    /\ opts \in [onnx_cache_converted : BOOLEAN, onnx_cache_optimized : BOOLEAN,
                 onnx_enable_olive : BOOLEAN,
                 onnx_execution_provider : {DefaultProvider},
                 onnx_olive_float16 : {FALSE}]
    /\ config = [width |-> 512, height |-> 512, batch_size |-> 1, is_sdxl |-> FALSE,
                  cross_attention_dim |-> 0, time_ids_size |-> 0]
    /\ \E sdxl_main \in BOOLEAN, sdxl_other \in BOOLEAN, d \in SrcDirs, f \in SrcFiles :
         LET f0 == [q \in SrcDirs \cup DOMAIN left |->
                        IF q \in SrcDirs THEN SourceDir ELSE left[q]]
         IN /\ fs = TempAfterInit(f0, "ok")
            /\ raw = [t \in Threads |-> IF t = "main" THEN RawFromDir(sdxl_main, d, f0)
                                         ELSE RawFromFile(sdxl_other, f, "ok")]
    /\ pc = BlankFrame("idle")
    /\ top = BlankFrame("")
    /\ called = BlankFrame({})
    /\ in_dir = BlankFrame(None)
    /\ out_dir = BlankFrame(None)
    /\ idx = BlankFrame(0)
    /\ runs = BlankFrame(0)
    /\ model_index = BlankFrame(EmptyDict)
    /\ err = BlankFrame("")
    /\ converted_dir = BlankFrame(None)
    /\ optimized_dir = BlankFrame(None)
    /\ ret = BlankFrame(NoRet)
    /\ calls = 0
    /\ last_convert = NoCall
    /\ last_optimize = NoCall
    /\ log = BlankFrame({})
    /\ args = BlankFrame(NoArgs)
    /\ invoked = BlankFrame(<< >>)
    /\ overlap = BlankFrame(FALSE)
    /\ hit = BlankFrame(NoHit)
    /\ crashed = {}
    /\ pipeline = BlankFrame(NoPipeline)
    /\ olive_config = BlankFrame(NoOliveConfig)
    /\ prior = BlankFrame("")
    /\ LoaderOff

\* the two raw pipelines and an empty cache root
InitPair == PairFrom([q \in {} |-> EmptyDir])

\* callers that do not serialize their calls to convert: the steps of the two
\* frames interleave
NextConvert2 ==
    \E t \in Threads :
        \/ CallConvert(t)
        \/ ConvertCheck(t)
        \/ ConvertMiss(t)
        \/ AfterConvert(t)
        \/ Done(t)

SpecConvert2 == InitPair /\ [][NextConvert2]_vars

\* two raw pipelines of the base architecture whose conversion entry is cached
\* and retained, with optimization enabled
InitRun2 ==
    /\ PairFrom([q \in {join(onnx_cached_models_path, "m")} |-> CompleteDir])
    /\ opts = [onnx_cache_converted |-> TRUE, onnx_cache_optimized |-> TRUE,
               onnx_enable_olive |-> TRUE,
               onnx_execution_provider |-> DefaultProvider,
               onnx_olive_float16 |-> FALSE]
    /\ \A t \in Threads : ~raw[t]._is_sdxl

\* callers that do not serialize their calls to preprocess; convert finds the
\* retained entry every time, so its miss path is never entered
NextRun2 ==
    \E t \in Threads :
        \/ \E batch_size \in BatchSizes, height \in Dims, width \in Dims :
                Preprocess(t, batch_size, height, width)
        \/ ConvertCheck(t)
        \/ AfterConvert(t)
        \/ EnterOptimize(t)
        \/ OptimizeSteps(t)
        \/ AfterOptimize(t)
        \/ FallbackB(t)
        \/ Assemble(t)
        \/ Cleanup(t)
        \/ Done(t)

SpecRun2 == InitRun2 /\ [][NextRun2]_vars

\* ------------------------------------------- manifest loader and resolver
\* the keys and values of the manifests the loader is run on: a literal, a
\* reference pair, and reference pairs with an unset member
LoaderKeys == {"unet", "safety_checker"}
ManifestValues == {<<"lit", "True">>, <<"ref", "diffusers", "OnnxRuntimeModel">>,
                   <<"ref", "None", "None">>, <<"ref", "diffusers", "None">>,
                   <<"ref", "None", "OnnxRuntimeModel">>}
PartialDicts == UNION {[keys -> ManifestValues] : keys \in SUBSET LoaderKeys}
ExtractedInputs == UNION {[1..n -> PartialDicts] : n \in 1..MaxParts}

\* the directory the loader and the resolver are run on
LoaderPath == <<"a", "m">>

\* the entries load_submodel has something to import for
Resolvable(d) == {k \in DOMAIN d : d[k][1] = "ref" /\ d[k][2] # "None" /\ d[k][3] # "None"}

\* variant of load_submodels: the first exception ends the loop and nothing is returned
load_submodelsAborts(path, d, failing) ==
    IF failing # {} THEN EmptyDict
    ELSE [k \in DOMAIN d |-> IF d[k][1] # "ref" THEN d[k] ELSE load_submodel(path, k, d[k])]

\* Line 167-177; failing is the set of keys for which load_submodel raises
load_submodels(path, d, failing) ==
    [k \in DOMAIN d \ failing |->
        IF d[k][1] # "ref" THEN d[k] ELSE load_submodel(path, k, d[k])]

\* no call has been made on any frame
NoCallYet ==
    /\ pc = BlankFrame("idle")
    /\ top = BlankFrame("")
    /\ called = BlankFrame({})
    /\ in_dir = BlankFrame(None)
    /\ out_dir = BlankFrame(None)
    /\ idx = BlankFrame(0)
    /\ runs = BlankFrame(0)
    /\ model_index = BlankFrame(EmptyDict)
    /\ err = BlankFrame("")
    /\ converted_dir = BlankFrame(None)
    /\ optimized_dir = BlankFrame(None)
    /\ ret = BlankFrame(NoRet)
    /\ calls = 0
    /\ last_convert = NoCall
    /\ last_optimize = NoCall
    /\ log = BlankFrame({})
    /\ args = BlankFrame(NoArgs)
    /\ invoked = BlankFrame(<< >>)
    /\ overlap = BlankFrame(FALSE)
    /\ hit = BlankFrame(NoHit)
    /\ crashed = {}
    /\ pipeline = BlankFrame(NoPipeline)
    /\ olive_config = BlankFrame(NoOliveConfig)
    /\ prior = BlankFrame("")

\* a source directory whose name has the form of an optimization key
KeyLikeSource == <<"c", OptimizedName("m", 512, 512)>>

\* a raw pipeline for the source "m", whose conversion entry is cached, and one
\* for the source named like the optimization key of "m" at 512 x 512
InitShared ==
    /\ opts \in [onnx_cache_converted : BOOLEAN, onnx_cache_optimized : BOOLEAN,
                 onnx_enable_olive : BOOLEAN,
                 onnx_execution_provider : {DefaultProvider},
                 onnx_olive_float16 : {FALSE}]
    /\ config = [width |-> 512, height |-> 512, batch_size |-> 1, is_sdxl |-> FALSE,
                  cross_attention_dim |-> 0, time_ids_size |-> 0]
    /\ fs = [q \in SrcDirs \cup {KeyLikeSource, join(onnx_cached_models_path, "m")} |->
                IF q = join(onnx_cached_models_path, "m") THEN CompleteDir ELSE SourceDir]
    /\ \E sdxl \in BOOLEAN, d \in SrcDirs :
         raw = [t \in Threads |-> IF t = "main" THEN RawFromDir(FALSE, d, fs)
                                  ELSE RawFromDir(sdxl, KeyLikeSource, fs)]
    /\ NoCallYet
    /\ LoaderOff

\* no other frame is inside a call
Alone(t) == \A u \in Threads \ {t} : pc[u] = "idle"

\* direct calls of convert and optimize on the two raw pipelines, one call at a time
NextShared ==
    \E t \in Threads :
        \/ Alone(t) /\ CallConvert(t)
        \/ Alone(t) /\ \E height \in Dims, width \in Dims : CallOptimize(t, height, width)
        \/ Alone(t) /\ ConvertCheck(t)
        \/ Alone(t) /\ ConvertMiss(t)
        \/ Alone(t) /\ AfterConvert(t)
        \/ Alone(t) /\ OptimizeSteps(t)
        \/ Alone(t) /\ AfterOptimize(t)
        \/ Alone(t) /\ Done(t)

SpecShared == InitShared /\ [][NextShared]_vars

\* two raw pipelines for sources of one filename whose conversion entry is
\* cached, with both caches retained, optimization enabled and the engine on
\* its default target
InitKey ==
    /\ PairFrom([q \in {join(onnx_cached_models_path, "m")} |-> CompleteDir])
    /\ opts.onnx_cache_converted
    /\ opts.onnx_cache_optimized
    /\ opts.onnx_enable_olive

\* the frame makes its steps while no other frame is inside a call
Serial(t) == \A u \in Threads \ {t} : ~Running(u)

\* the first call is made on "main", and the calls on "other" follow it
InTurn(t) == IF t = "main" THEN calls = 0 ELSE pc["main"] = "done"

\* the settings page stores another execution target or float16 flag after
\* the first call has ended
SetEngine ==
    /\ pc["main"] = "done"
    /\ pc["other"] = "idle"
    /\ opts' \in {[opts EXCEPT !.onnx_execution_provider = p, !.onnx_olive_float16 = f] :
                      p \in ExecutionProviders, f \in BOOLEAN} \ {opts}
    /\ UNCHANGED <<fs, config, raw, frame, calls, last_convert, last_optimize,
                   crashed, prior, loader>>

\* calls of preprocess on the two raw pipelines at one width, one call at a
\* time; the outcome of the first call stays with its frame while the calls
\* that follow it run
NextKey ==
    \/ SetEngine
    \/ \E t \in Threads :
        \/ /\ Serial(t) /\ InTurn(t)
           /\ \E batch_size \in BatchSizes, height \in Dims :
                  Preprocess(t, batch_size, height, 512)
        \/ Serial(t) /\ ConvertCheck(t)
        \/ Serial(t) /\ AfterConvert(t)
        \/ Serial(t) /\ EnterOptimize(t)
        \/ Serial(t) /\ OptimizeSteps(t)
        \/ Serial(t) /\ AfterOptimize(t)
        \/ Serial(t) /\ FallbackB(t)
        \/ Serial(t) /\ Assemble(t)
        \/ Serial(t) /\ Cleanup(t)
        \/ pc["other"] = "done" /\ Serial(t) /\ Done(t)

SpecKey == InitKey /\ [][NextKey]_vars

InitLoad ==
    /\ opts = [onnx_cache_converted |-> FALSE, onnx_cache_optimized |-> FALSE,
               onnx_enable_olive |-> FALSE,
               onnx_execution_provider |-> DefaultProvider,
               onnx_olive_float16 |-> FALSE]
    /\ config = [width |-> 512, height |-> 512, batch_size |-> 1, is_sdxl |-> FALSE,
                  cross_attention_dim |-> 0, time_ids_size |-> 0]
    /\ fs = [q \in SrcDirs |-> SourceDir]
    /\ raw = BlankFrame(RawFromDir(FALSE, LoaderPath, [q \in SrcDirs |-> SourceDir]))
    /\ NoCallYet
    /\ lpc = "start"
    /\ extracted \in ExtractedInputs
    /\ R = EmptyDict
    /\ init_dict = EmptyDict
    /\ thrown = {}
    /\ loaded = EmptyDict

staged == <<fs, opts, config, raw, frame, calls, last_convert, last_optimize, crashed, prior>>

\* Line 129-142
LoadInitDict ==
    /\ lpc = "start"
    /\ R' = load_init_dict(MergeExtracted(extracted))
    /\ lpc' = "init_dict"
    /\ UNCHANGED <<staged, extracted, init_dict, thrown, loaded>>

\* Line 167-177, on the manifest load_init_dict returned (as load_pipeline
\* calls it) or on the merged mapping as it was read
LoadSubmodels ==
    /\ lpc = "init_dict"
    /\ \E d \in {R, MergeExtracted(extracted)}, failing \in SUBSET LoaderKeys :
        /\ failing \subseteq Resolvable(d)
        /\ init_dict' = d
        /\ thrown' = failing
        /\ loaded' = load_submodels(LoaderPath, d, failing)
    /\ lpc' = "submodels"
    /\ UNCHANGED <<staged, extracted, R>>

NextLoad == LoadInitDict \/ LoadSubmodels

SpecLoad == InitLoad /\ [][NextLoad]_vars

\* ------------------------------------------------------------ properties
ConvertedPath(t) == join(onnx_cached_models_path, raw[t].original_filename)
OptimizedPath(t) ==
    join(onnx_cached_models_path,
         OptimizedName(raw[t].original_filename, config.width, config.height))

PreprocessEnded(t) == top[t] = "preprocess" /\ pc[t] = "done"

\* C1 (fallback A): when preprocess has ended and convert returned None, the
\* pipeline was built by the generic constructor from the original path, optimize
\* was never entered, and the conversion directory of the source does not exist.
C1_FallbackA ==
    \A t \in Threads :
        (PreprocessEnded(t) /\ converted_dir[t] = None) =>
            /\ ret[t].via = "fallback_a"
            /\ ret[t].cls = GenericPipeline(raw[t]._is_sdxl)
            /\ ret[t].path = raw[t].path
            /\ "optimize" \notin called[t]
            /\ ~isdir(fs, ConvertedPath(t))

C1_Witness ==
    /\ PreprocessEnded("main")
    /\ converted_dir["main"] = None
    /\ ret["main"].kind = "returned"
    /\ raw["main"].path \in SrcFiles

\* C2 (fallback B): when preprocess has ended, convert returned a directory and
\* optimize returned None, the pipeline was built by the graph-backed constructor
\* from the converted directory, and the directory keyed by filename, width and
\* height does not exist.
C2_FallbackB ==
    \A t \in Threads :
        (/\ PreprocessEnded(t)
         /\ converted_dir[t] # None
         /\ "optimize" \in called[t]
         /\ optimized_dir[t] = None) =>
            /\ opts.onnx_enable_olive
            /\ ret[t].via = "fallback_b"
            /\ ret[t].cls = OnnxPipeline(raw[t]._is_sdxl)
            /\ ret[t].path = converted_dir[t]
            /\ converted_dir[t] = ConvertedPath(t)
            /\ ~isdir(fs, OptimizedPath(t))

C2_Witness ==
    /\ PreprocessEnded("main")
    /\ converted_dir["main"] # None
    /\ "optimize" \in called["main"]
    /\ optimized_dir["main"] = None
    /\ ret["main"].kind = "returned"
    /\ opts.onnx_cache_optimized

\* C3 (cache hit): a stage whose keyed directory exists at its cache check
\* returns that directory in the very next step, with no engine invocation and
\* without touching any directory, whatever the directory holds.
C3_CacheHit ==
    [][\A t \in Threads :
        /\ (pc[t] = "cv_check" /\ isdir(fs, ConvertedPath(t))) =>
              /\ pc'[t] = "cv_return"
              /\ converted_dir'[t] = ConvertedPath(t)
              /\ runs[t] = 0 /\ runs'[t] = 0
              /\ fs' = fs
        /\ (pc[t] = "op_check" /\ isdir(fs, OptimizedPath(t))) =>
              /\ pc'[t] = "op_return"
              /\ optimized_dir'[t] = OptimizedPath(t)
              /\ runs[t] = 0 /\ runs'[t] = 0
              /\ fs' = fs]_vars

C3_Witness ==
    /\ pc["main"] = "cv_return"
    /\ converted_dir["main"] # None
    /\ isdir(fs, converted_dir["main"])
    /\ fs[converted_dir["main"]] = EmptyDir

\* C4 (idempotence of convert): a direct convert call that follows a direct
\* convert call on the same source which returned a directory returns the same
\* directory without invoking the engine, so the engine ran at most once per
\* required sub-component over both calls.
C4_ConvertIdempotent ==
    \A t \in Threads :
        (/\ pc[t] = "cv_return"
         /\ top[t] = "convert"
         /\ last_convert.valid
         /\ last_convert.age = 1
         /\ last_convert.path = raw[t].path) =>
            /\ converted_dir[t] = last_convert.result
            /\ runs[t] = 0
            /\ last_convert.runs + runs[t] \in {0, Len(submodels(t))}

C4_Witness ==
    /\ pc["main"] = "cv_return"
    /\ top["main"] = "convert"
    /\ last_convert.valid
    /\ last_convert.age = 1
    /\ last_convert.path = raw["main"].path
    /\ last_convert.runs = Len(submodels("main"))
    /\ converted_dir["main"] = last_convert.result

OptimizeReturnedDir(t) == pc[t] = "op_return" /\ optimized_dir[t] # None

SameDims == config.width = last_optimize.width /\ config.height = last_optimize.height

\* C5 as stated (cache-key correctness): two optimize calls for one filename
\* that return a directory return the same directory exactly when width and
\* height both match.
C5_AsStated ==
    \A t \in Threads :
        (/\ OptimizeReturnedDir(t)
         /\ last_optimize.valid
         /\ last_optimize.filename = raw[t].original_filename) =>
            (optimized_dir[t] = last_optimize.result <=> SameDims)

\* C5 amended: optimize returns either the directory keyed by filename, width
\* and height or, on a miss with 'retain optimized cache' disabled, the scratch
\* directory; the keyed name is different for different dimensions, so two calls
\* that return keyed directories return the same one exactly when width and
\* height both match.
C5_KeyedDirs ==
    \A t \in Threads :
        OptimizeReturnedDir(t) =>
            /\ optimized_dir[t] \in {OptimizedPath(t), onnx_temp_dir}
            /\ optimized_dir[t] = onnx_temp_dir => ~opts.onnx_cache_optimized
            /\ \A w1 \in Dims, h1 \in Dims, w2 \in Dims, h2 \in Dims :
                  (OptimizedName(raw[t].original_filename, w1, h1)
                     = OptimizedName(raw[t].original_filename, w2, h2))
                  <=> (w1 = w2 /\ h1 = h2)
            /\ (/\ last_optimize.valid
                /\ last_optimize.filename = raw[t].original_filename
                /\ optimized_dir[t] # onnx_temp_dir
                /\ last_optimize.result # onnx_temp_dir) =>
                  (optimized_dir[t] = last_optimize.result <=> SameDims)

C5_Witness ==
    /\ OptimizeReturnedDir("main")
    /\ last_optimize.valid
    /\ last_optimize.filename = raw["main"].original_filename
    /\ optimized_dir["main"] # onnx_temp_dir
    /\ last_optimize.result # onnx_temp_dir
    /\ ~SameDims
    /\ optimized_dir["main"] # last_optimize.result
    /\ runs["main"] > 0


UnderCacheRoot(d) == Len(d) = 2 /\ d[1] = onnx_cached_models_path[1]

\* an entry with a graph file for each sub-component of its architecture, and
\* the manifest
CompleteEntry(d) ==
    /\ d.manifest.exists
    /\ d.graphs \in {Range(submodels_sd), Range(submodels_sdxl)}

\* C6 (no partial cache entry), from an empty cache root: whenever convert or
\* optimize has returned, every directory under the cache root has all the
\* graph files and the manifest, and a stage that returned None has left its
\* output directory absent.
C6_NoPartialEntry ==
    \A t \in Threads :
        /\ pc[t] \in {"cv_return", "op_return"} =>
              \A d \in DOMAIN fs : UnderCacheRoot(d) => CompleteEntry(fs[d])
        /\ (pc[t] = "cv_return" /\ converted_dir[t] = None) => ~isdir(fs, out_dir[t])
        /\ (pc[t] = "op_return" /\ optimized_dir[t] = None) => ~isdir(fs, out_dir[t])

C6_Witness ==
    /\ pc["main"] = "op_return"
    /\ optimized_dir["main"] = None
    /\ err["main"] = "handled"
    /\ runs["main"] = Len(submodels("main"))
    /\ out_dir["main"] = OptimizedPath("main")
    /\ isdir(fs, ConvertedPath("main"))

StagePcs == {"cv_seed", "cv_run", "cv_copy", "cv_pipeline", "cv_manifest",
             "op_seed", "op_run", "op_copy", "op_pipeline", "op_manifest"}
HandlerOf(p) == IF p \in {"cv_seed", "cv_run", "cv_copy", "cv_pipeline", "cv_manifest"}
                THEN "cv_except" ELSE "op_except"

\* C7 (stage failures never propagate): a failure raised in a stage after its
\* cache check only ever leads to the stage's handler; the handler makes the
\* stage return None without ending the call; and preprocess then goes on to
\* fallback A (convert) or fallback B (optimize).
C7_StageFailuresCaught ==
    [][\A t \in Threads :
        /\ (err'[t] \notin {"", "handled"} /\ err'[t] # err[t]) =>
              /\ pc[t] \in StagePcs
              /\ pc'[t] = HandlerOf(pc[t])
              /\ ret'[t] = NoRet
        /\ pc[t] = "cv_except" =>
              pc'[t] = "cv_return" /\ converted_dir'[t] = None /\ ret'[t] = NoRet
        /\ pc[t] = "op_except" =>
              pc'[t] = "op_return" /\ optimized_dir'[t] = None /\ ret'[t] = NoRet
        /\ (pc[t] = "cv_return" /\ err[t] = "handled") =>
              IF top[t] = "preprocess"
              THEN pc'[t] = "fallback_a" /\ ret'[t] = NoRet
              ELSE ret'[t].kind = "returned" /\ ret'[t].path = None
        /\ (pc[t] = "op_return" /\ err[t] = "handled") =>
              IF top[t] = "preprocess"
              THEN pc'[t] = "fallback_b" /\ ret'[t] = NoRet
              ELSE ret'[t].kind = "returned" /\ ret'[t].path = None
        /\ (ret'[t].kind = "raised") => pc[t] \in {"fallback_a", "fallback_b", "assemble", "cleanup"}
      ]_vars

C7_Witness ==
    /\ pc["main"] = "fallback_b"
    /\ err["main"] = "handled"
    /\ optimized_dir["main"] = None

\* C8 (cleanup invariant): whenever preprocess has returned a pipeline, the
\* scratch directory does not exist.
C8_ScratchRemoved ==
    \A t \in Threads :
        (PreprocessEnded(t) /\ ret[t].kind = "returned") => ~isdir(fs, onnx_temp_dir)

C8_Witness ==
    /\ PreprocessEnded("main")
    /\ ret["main"].kind = "returned"
    /\ ret["main"].via = "success"
    /\ ret["main"].path = onnx_temp_dir

\* a stage that missed the cache and has just written its manifest
StageSucceeded(t) ==
    /\ \/ pc[t] = "cv_return" /\ converted_dir[t] # None
       \/ pc[t] = "op_return" /\ optimized_dir[t] # None
    /\ runs[t] > 0

Persisted(t) == fs[out_dir[t]].manifest.body

\* C9 as stated (manifest merge law): every key of the raw pipeline's manifest
\* that the serialized manifest lacks is in the persisted manifest with its
\* pre-conversion value, and the serialized keys keep the serialized value.
C9_AsStated ==
    \A t \in Threads :
        StageSucceeded(t) =>
            /\ \A k \in DOMAIN raw[t].init_dict \ DOMAIN model_index[t] :
                  k \in DOMAIN Persisted(t) /\ Persisted(t)[k] = raw[t].init_dict[k]
            /\ \A k \in DOMAIN model_index[t] :
                  k \in DOMAIN Persisted(t) /\ Persisted(t)[k] = model_index[t][k]

\* C9 amended: the law holds for the keys of the raw pipeline's manifest other
\* than the converted sub-components, which the stage removes before the merge;
\* a converted sub-component the serialized manifest lacks is not restored, and
\* the persisted manifest has no other key.
C9_MergeLaw ==
    \A t \in Threads :
        StageSucceeded(t) =>
            /\ \A k \in (DOMAIN raw[t].init_dict \ Range(submodels(t))) \ DOMAIN model_index[t] :
                  k \in DOMAIN Persisted(t) /\ Persisted(t)[k] = raw[t].init_dict[k]
            /\ \A k \in DOMAIN model_index[t] :
                  k \in DOMAIN Persisted(t) /\ Persisted(t)[k] = model_index[t][k]
            /\ \A k \in Range(submodels(t)) \ DOMAIN model_index[t] :
                  k \notin DOMAIN Persisted(t)
            /\ DOMAIN Persisted(t) \subseteq DOMAIN raw[t].init_dict \cup DOMAIN model_index[t]

C9_Witness ==
    /\ StageSucceeded("main")
    /\ "tokenizer" \in DOMAIN raw["main"].init_dict
    /\ "tokenizer" \notin DOMAIN model_index["main"]
    /\ "unet" \in DOMAIN raw["main"].init_dict
    /\ Persisted("main")["tokenizer"] = SourceManifest["tokenizer"]

Branch(t) ==
    IF converted_dir[t] = None THEN "fallback_a"
    ELSE IF "optimize" \in called[t] /\ optimized_dir[t] = None THEN "fallback_b"
    ELSE "success"

OptimizePcs == {"op_check", "op_seed", "op_run", "op_copy", "op_pipeline", "op_manifest",
                "op_except", "op_return"}

\* C11 (optimization is optional): while preprocess runs with optimization
\* disabled, it never enters optimize, emits no advisory and creates no directory
\* other than the conversion entry, and once convert has returned a directory it
\* goes on to the final assembly from the converted directory; with optimization
\* enabled, the experimental advisory is in the log whenever preprocess is inside
\* optimize, and the precision-risk advisory is there exactly when the width
\* handed to preprocess differs from the height.
C11_OptimizationOptional ==
    [][\A t \in Threads :
        /\ (top[t] = "preprocess" /\ ~opts.onnx_enable_olive) =>
              /\ pc[t] \notin OptimizePcs \cup {"olive", "fallback_b"}
              /\ "optimize" \notin called[t]
              /\ log[t] = {}
              /\ optimized_dir[t] = None
              /\ DOMAIN fs' \subseteq DOMAIN fs \cup {ConvertedPath(t)}
              /\ (pc[t] = "cv_return" /\ converted_dir[t] # None /\ pc'[t] # pc[t]) =>
                    pc'[t] = "assemble"
              /\ (pc[t] = "assemble" /\ pc'[t] # pc[t]) =>
                    /\ ret'[t].via = "success"
                    /\ ret'[t].cls = OnnxPipeline(raw[t]._is_sdxl)
                    /\ ret'[t].path = converted_dir[t]
        /\ (top[t] = "preprocess" /\ opts.onnx_enable_olive) =>
              /\ pc[t] \in OptimizePcs \cup {"olive"} =>
                    /\ "experimental" \in log[t]
                    /\ "precision" \in log[t] <=> args[t].width # args[t].height
              /\ (pc[t] = "cv_return" /\ converted_dir[t] # None /\ pc'[t] # pc[t]) =>
                    pc'[t] = "olive"
              /\ (pc'[t] = "op_check" /\ pc'[t] # pc[t]) => pc[t] = "olive"
      ]_vars

C11_Witness ==
    /\ PreprocessEnded("main")
    /\ ~opts.onnx_enable_olive
    /\ ret["main"].kind = "returned"
    /\ ret["main"].via = "success"
    /\ ret["main"].path = ConvertedPath("main")
    /\ args["main"].width # args["main"].height
    /\ log["main"] = {}

IsPrefix(s, full) == Len(s) <= Len(full) /\ s = SubSeq(full, 1, Len(s))

RequiredOrder(t) ==
    IF raw[t]._is_sdxl
    THEN <<"text_encoder", "text_encoder_2", "unet", "vae_encoder", "vae_decoder">>
    ELSE <<"text_encoder", "unet", "vae_encoder", "vae_decoder">>

\* a stage that returned a directory it did not find cached
MissSucceeded(t) ==
    /\ \/ pc[t] = "cv_return" /\ converted_dir[t] # None
       \/ pc[t] = "op_return" /\ optimized_dir[t] # None
    /\ ~hit[t].valid

\* C12 (sub-component order and layout): the engine invocations of a stage call
\* are always a prefix of text_encoder, unet, vae_encoder, vae_decoder (base) or
\* text_encoder, text_encoder_2, unet, vae_encoder, vae_decoder (larger variant);
\* when a stage returns a directory after a cache miss it has invoked the engine
\* exactly once for each of them in that order, convert's directory is
\* <cache_root>/<source filename> and holds a graph file under exactly those
\* names, and the directory optimize returns holds a graph file under each of them.
C12_OrderAndLayout ==
    \A t \in Threads :
        /\ IsPrefix(invoked[t], RequiredOrder(t))
        /\ Len(invoked[t]) = runs[t]
        /\ MissSucceeded(t) =>
              /\ invoked[t] = RequiredOrder(t)
              /\ isdir(fs, out_dir[t])
              /\ Range(RequiredOrder(t)) \subseteq fs[out_dir[t]].graphs
        /\ (MissSucceeded(t) /\ pc[t] = "cv_return") =>
              /\ converted_dir[t] = join(onnx_cached_models_path, raw[t].original_filename)
              /\ fs[converted_dir[t]].graphs = Range(RequiredOrder(t))

C12_Witness ==
    /\ MissSucceeded("main")
    /\ pc["main"] = "cv_return"
    /\ raw["main"]._is_sdxl
    /\ invoked["main"] = submodels_sdxl
    /\ fs[converted_dir["main"]].graphs = Range(submodels_sdxl)

\* C13 (retention at terminal success): the step that ends preprocess after the
\* final assembly returns the pipeline with the scratch directory deleted,
\* whether or not it existed before; the converted directory is gone if 'retain
\* converted cache' is disabled and is left as it was if it is enabled.
C13_RetentionAtSuccess ==
    [][\A t \in Threads :
        (pc[t] = "cleanup" /\ pc'[t] = "done" /\ top[t] = "preprocess") =>
            /\ ret'[t].kind = "returned" =>
                  /\ ~isdir(fs', onnx_temp_dir)
                  /\ IF opts.onnx_cache_converted
                     THEN /\ isdir(fs', converted_dir[t])
                          /\ fs'[converted_dir[t]] = fs[converted_dir[t]]
                     ELSE ~isdir(fs', converted_dir[t])
            /\ (isdir(fs, converted_dir[t]) \/ opts.onnx_cache_converted) =>
                  ret'[t].kind = "returned"
      ]_vars

C13_Witness ==
    /\ PreprocessEnded("main")
    /\ ret["main"].kind = "returned"
    /\ ret["main"].via = "success"
    /\ ~opts.onnx_cache_converted
    /\ ~isdir(fs, ConvertedPath("main"))
    /\ raw["main"].path \in SrcDirs
    /\ optimized_dir["main"] # None

\* C14 as stated (conversion output location by retention setting): after a cache
\* miss convert works on the filename-keyed directory, pre-seeded from the
\* source, when 'retain converted cache' is enabled and on the scratch directory
\* when it is disabled; once every engine invocation has succeeded the output
\* directory is there to receive the graph files.
C14_AsStated ==
    \A t \in Threads :
        /\ pc[t] \in {"cv_run", "cv_copy", "cv_pipeline", "cv_manifest"} =>
              out_dir[t] = IF opts.onnx_cache_converted
                           THEN join(onnx_cached_models_path, raw[t].original_filename)
                           ELSE onnx_temp_dir
        /\ (pc[t] = "cv_copy" /\ invoked[t] = submodels(t)) => isdir(fs, out_dir[t])

\* C15 (a missing footprint record aborts the whole stage): a missing record is
\* only ever found in the engine loop, right after the engine ran for
\* sub-component k; the engine loop writes nothing to the output directory, the
\* stage goes to its handler and from there returns None without another engine
\* invocation and without reaching the copy loop, leaving no output directory.
C15_MissingFootprintAborts ==
    [][\A t \in Threads :
        /\ (err'[t] = "footprint_record" /\ err[t] # "footprint_record") =>
              /\ pc[t] \in {"cv_run", "op_run"}
              /\ pc'[t] = (IF pc[t] = "cv_run" THEN "cv_except" ELSE "op_except")
              /\ invoked'[t] = SubSeq(submodels(t), 1, idx[t])
        /\ (pc[t] \in {"cv_run", "op_run"} /\ (pc'[t] # pc[t] \/ idx'[t] # idx[t])) =>
              fs' = fs
        /\ err[t] = "footprint_record" =>
              /\ pc[t] \in {"cv_except", "op_except"}
              /\ pc'[t] # pc[t] =>
                    /\ pc'[t] = (IF pc[t] = "cv_except" THEN "cv_return" ELSE "op_return")
                    /\ invoked'[t] = invoked[t]
                    /\ runs'[t] = runs[t]
                    /\ IF pc[t] = "cv_except" THEN converted_dir'[t] = None
                                              ELSE optimized_dir'[t] = None
                    /\ ~isdir(fs', out_dir[t])
      ]_vars

C15_Witness ==
    /\ pc["main"] = "op_except"
    /\ err["main"] = "footprint_record"
    /\ Len(invoked["main"]) = 2
    /\ isdir(fs, out_dir["main"])
    /\ out_dir["main"] = OptimizedPath("main")

HasManifest(f, d) == isdir(f, d) /\ f[d].manifest.exists
HasAllGraphs(f, d, t) == isdir(f, d) /\ Range(submodels(t)) \subseteq f[d].graphs

\* C16 as stated (manifest written last): while a stage works on a cache miss,
\* an output directory that contains the manifest file contains the graph file
\* of every required sub-component.
C16_AsStated ==
    \A t \in Threads :
        (pc[t] \in StagePcs /\ HasManifest(fs, out_dir[t])) => HasAllGraphs(fs, out_dir[t], t)

\* C16 amended: a stage on a cache miss puts a manifest file into its output
\* directory at two places only: the pre-seed, which creates the directory with
\* the input directory's manifest and no graph file, and the stage's last step,
\* which writes the merged manifest when the graph file of every required
\* sub-component is there and then returns the directory.
C16_ManifestWrites ==
    [][\A t \in Threads :
        (/\ pc[t] \in StagePcs
         /\ isdir(fs', out_dir[t])
         /\ ~isdir(fs, out_dir[t]) \/ fs'[out_dir[t]].manifest # fs[out_dir[t]].manifest) =>
            \/ /\ pc[t] \in {"cv_seed", "op_seed"}
               /\ ~isdir(fs, out_dir[t])
               /\ fs'[out_dir[t]].manifest = fs[in_dir[t]].manifest
               /\ fs'[out_dir[t]].graphs = {}
            \/ /\ pc[t] \in {"cv_manifest", "op_manifest"}
               /\ HasAllGraphs(fs, out_dir[t], t)
               /\ fs'[out_dir[t]].manifest = ManifestFile(MergedIndex(t))
               /\ fs'[out_dir[t]].graphs = fs[out_dir[t]].graphs
               /\ pc'[t] \in {"cv_return", "op_return"}
      ]_vars

C16_Witness ==
    /\ MissSucceeded("main")
    /\ pc["main"] = "cv_return"
    /\ opts.onnx_cache_converted
    /\ raw["main"].path \in SrcDirs
    /\ fs[out_dir["main"]].manifest = ManifestFile(MergedIndex("main"))
    /\ fs[out_dir["main"]].manifest # fs[in_dir["main"]].manifest

\* C17 (unprotected concurrent runs of convert), from an empty cache root:
\* nothing coordinates two invocations.  The cache check takes any existing
\* directory as a hit, also one that another invocation is still populating, and
\* returns it as it is; the handler of a failing invocation removes its output
\* directory, also when another invocation has returned it; and a convert call
\* that no other call overlapped never returns a directory that is absent or
\* incomplete.
C17_Unprotected ==
    [][\A t \in Threads :
        /\ (pc[t] = "cv_check" /\ pc'[t] # pc[t] /\ isdir(fs, ConvertedPath(t))) =>
              /\ pc'[t] = "cv_return"
              /\ converted_dir'[t] = ConvertedPath(t)
              /\ hit'[t] = Seen(fs, ConvertedPath(t))
              /\ fs' = fs
        /\ (pc[t] = "cv_except" /\ pc'[t] # pc[t]) => ~isdir(fs', out_dir[t])
        /\ (pc[t] = "cv_return" /\ converted_dir[t] # None /\ ~overlap[t]) =>
              /\ isdir(fs, converted_dir[t])
              /\ CompleteEntry(fs[converted_dir[t]])
      ]_vars

\* one invocation has returned, as a cache hit, the directory the other was
\* populating, when it lacked a graph file; the other has then failed and its
\* handler has removed the directory
C17_Witness ==
    /\ pc["main"] = "done"
    /\ ret["main"].kind = "returned"
    /\ ret["main"].path = ConvertedPath("main")
    /\ hit["main"].valid
    /\ ~(Range(submodels("main")) \subseteq hit["main"].graphs)
    /\ hit["main"].graphs # {}
    /\ pc["other"] = "cv_return"
    /\ err["other"] = "handled"
    /\ out_dir["other"] = ConvertedPath("main")
    /\ ~isdir(fs, ConvertedPath("main"))

\* C18 (a crash leaves a permanent incomplete hit): for a directory under the
\* cache root that a stopped process left behind, every later cache check of the
\* stage with that key, as long as the directory exists, returns it as a hit
\* without invoking the engine and without touching it; and no step taken while
\* 'retain converted cache' is enabled removes or changes the directory.
C18_CrashLeavesHit ==
    [][\A t \in Threads :
        /\ (/\ pc[t] = "cv_check" /\ pc'[t] # pc[t]
            /\ ConvertedPath(t) \in crashed /\ isdir(fs, ConvertedPath(t))) =>
              /\ pc'[t] = "cv_return"
              /\ converted_dir'[t] = ConvertedPath(t)
              /\ runs'[t] = 0 /\ invoked'[t] = << >>
              /\ fs' = fs
        /\ (/\ pc[t] = "op_check" /\ pc'[t] # pc[t]
            /\ OptimizedPath(t) \in crashed /\ isdir(fs, OptimizedPath(t))) =>
              /\ pc'[t] = "op_return"
              /\ optimized_dir'[t] = OptimizedPath(t)
              /\ runs'[t] = 0 /\ invoked'[t] = << >>
              /\ fs' = fs
        /\ \A d \in crashed :
              (isdir(fs, d) /\ opts.onnx_cache_converted) =>
                  isdir(fs', d) /\ fs'[d] = fs[d]
      ]_vars

C18_Witness ==
    /\ top["main"] = "preprocess"
    /\ pc["main"] = "cv_return"
    /\ converted_dir["main"] \in crashed
    /\ hit["main"].valid
    /\ hit["main"].manifest
    /\ hit["main"].graphs # {}
    /\ ~(Range(submodels("main")) \subseteq hit["main"].graphs)
    /\ opts.onnx_cache_converted

LastComponent(path) == path[Len(path)]

\* a direct convert call that comes right after a convert call which returned a
\* directory for another source path with the same last component, neither call
\* overlapped by another
SecondOfSameName(t) ==
    /\ pc[t] = "cv_return"
    /\ top[t] = "convert"
    /\ ~overlap[t]
    /\ last_convert.valid
    /\ ~last_convert.overlapped
    /\ last_convert.age = 1
    /\ last_convert.path # raw[t].path
    /\ LastComponent(last_convert.path) = LastComponent(raw[t].path)

\* C19 (filename-only cache identity): when a raw pipeline has been converted
\* and convert is then called on a raw pipeline for a different source path with
\* the same base filename, of whatever architecture, the call returns the first
\* pipeline's directory as a cache hit, without invoking the engine.
C19_FilenameIdentity ==
    \A t \in Threads :
        SecondOfSameName(t) =>
            /\ converted_dir[t] = last_convert.result
            /\ hit[t].valid
            /\ runs[t] = 0
            /\ invoked[t] = << >>

C19_Witness ==
    /\ SecondOfSameName("other")
    /\ last_convert.path = raw["main"].path
    /\ last_convert.runs = Len(submodels("main"))
    /\ raw["main"]._is_sdxl # raw["other"]._is_sdxl
    /\ converted_dir["other"] = last_convert.result
    /\ hit["other"].graphs = Range(submodels("main"))

KeyedBy(t, width, height) ==
    join(onnx_cached_models_path, OptimizedName(raw[t].original_filename, width, height))

AfterOptimizeCheck == {"op_seed", "op_run", "op_copy", "op_pipeline", "op_manifest",
                       "op_except", "op_return"}

\* C20 (shared run configuration): while a run of preprocess that no other call
\* overlaps is in progress, from its first step on (before convert and optimize
\* are called), the process-wide configuration holds the width, height and batch
\* size handed to that run and the fields of its architecture, and optimize keys
\* its directory by that run's width and height.
C20_SharedConfig ==
    \A t \in Threads :
        (top[t] = "preprocess" /\ Running(t) /\ ~overlap[t]) =>
            /\ config.width = args[t].width
            /\ config.height = args[t].height
            /\ config.batch_size = args[t].batch_size
            /\ config.is_sdxl = raw[t]._is_sdxl
            /\ config.cross_attention_dim =
                  (IF raw[t]._is_sdxl THEN 2048 ELSE args[t].height + 256)
            /\ config.time_ids_size = (IF raw[t]._is_sdxl THEN 6 ELSE 5)
            /\ pc[t] \in AfterOptimizeCheck =>
                  out_dir[t] \in {KeyedBy(t, args[t].width, args[t].height), onnx_temp_dir}

\* two overlapping runs with different dimensions: a run's optimize works on
\* the directory keyed by the other run's width and height
C20_Witness ==
    /\ top["main"] = "preprocess"
    /\ top["other"] = "preprocess"
    /\ Running("other")
    /\ overlap["main"]
    /\ pc["main"] = "op_seed"
    /\ args["main"].width # args["other"].width
    /\ args["main"].height # args["other"].height
    /\ out_dir["main"] = KeyedBy("main", args["other"].width, args["other"].height)


\* the parts of the extracted mappings that hold key k
Holding(k) == {i \in 1..Len(extracted) : k \in DOMAIN extracted[i]}

\* the value the last part that holds k gives it
LastValue(k) ==
    LET last == CHOOSE i \in Holding(k) : \A j \in Holding(k) : j <= i
    IN extracted[last][k]

NullMember(v) == v[1] = "ref" /\ (v[2] = "None" \/ v[3] = "None")

\* C21 as stated (manifest loader result): the returned manifest holds every
\* merged entry, literal or reference pair, with the value of the last mapping
\* that has the key, except the entries whose reference pair has a null member.
C21_AsStated ==
    lpc \in {"init_dict", "submodels"} =>
        \A k \in LoaderKeys :
            /\ k \in DOMAIN R <=> (Holding(k) # {} /\ ~NullMember(LastValue(k)))
            /\ k \in DOMAIN R => R[k] = LastValue(k)

\* C21 amended: the returned manifest holds exactly the merged entries that are
\* reference pairs with both members set, each with the value of the last
\* mapping that has the key; literal entries are left out like the pairs with a
\* null member.
C21_ReferencePairsOnly ==
    lpc \in {"init_dict", "submodels"} =>
        \A k \in LoaderKeys :
            /\ k \in DOMAIN R <=> (/\ Holding(k) # {}
                                   /\ LastValue(k)[1] = "ref"
                                   /\ ~NullMember(LastValue(k)))
            /\ k \in DOMAIN R => R[k] = LastValue(k)

C21_Witness ==
    /\ lpc = "init_dict"
    /\ Len(extracted) = 2
    /\ "unet" \in DOMAIN extracted[1] /\ "unet" \in DOMAIN extracted[2]
    /\ extracted[1]["unet"] = <<"ref", "None", "None">>
    /\ "unet" \in DOMAIN R /\ R["unet"] = extracted[2]["unet"]
    /\ Holding("safety_checker") = {1}
    /\ extracted[1]["safety_checker"][1] = "lit"
    /\ "safety_checker" \notin DOMAIN R

\* C22 (best-effort sub-component resolution): load_submodels returns a mapping
\* whatever raises inside load_submodel; exactly the keys whose resolution
\* raised are absent, every other key has the value it has when nothing raises,
\* a literal entry is passed through unchanged and a reference pair with an
\* unset member resolves to null.
C22_BestEffort ==
    lpc = "submodels" =>
        /\ DOMAIN loaded = DOMAIN init_dict \ thrown
        /\ \A k \in DOMAIN loaded :
              /\ loaded[k] = load_submodels(LoaderPath, init_dict, {})[k]
              /\ init_dict[k][1] = "lit" => loaded[k] = init_dict[k]
              /\ NullMember(init_dict[k]) => loaded[k] = NullValue
              /\ (init_dict[k][1] = "ref" /\ ~NullMember(init_dict[k])) =>
                    loaded[k] = <<"obj", init_dict[k][2], init_dict[k][3], join(LoaderPath, k)>>
        /\ \A k \in DOMAIN init_dict :
              (init_dict[k][1] = "lit" \/ NullMember(init_dict[k])) => k \in DOMAIN loaded

C22_Witness ==
    /\ lpc = "submodels"
    /\ thrown = {"unet"}
    /\ DOMAIN init_dict = LoaderKeys
    /\ init_dict["safety_checker"] = <<"ref", "None", "None">>
    /\ DOMAIN loaded = {"safety_checker"}
    /\ loaded["safety_checker"] = NullValue

\* the scheduler __init__ captures for a raw pipeline of the given source
CapturedAtInit(r) ==
    IF r.path \in SrcDirs
    THEN {load_submodel(r.path, "scheduler", SourceManifest["scheduler"])}
    ELSE {SingleFileScheduler(r.path), NullValue}

\* the pipeline carries the raw pipeline's metadata
Carries(p, r) ==
    /\ p.sd_model_hash = r.sd_model_hash
    /\ p.sd_checkpoint_info = r.sd_checkpoint_info
    /\ p.sd_model_checkpoint = r.sd_model_checkpoint
    /\ p.scheduler = r.scheduler

\* C23 (carried metadata): the pipeline preprocess has built or returned, on
\* terminal success and on both fallback branches, has the model hash, checkpoint
\* info, checkpoint name and scheduler of the raw pipeline, the scheduler being
\* the one captured at construction; and no step of preprocess changes the raw
\* pipeline.
C23_CarriedMetadata ==
    [][\A t \in Threads :
        /\ (top'[t] = "preprocess" /\ ret'[t].kind \in {"built", "returned"}) =>
              /\ ret'[t].via \in {"success", "fallback_a", "fallback_b"}
              /\ Carries(pipeline'[t], raw'[t])
              /\ pipeline'[t].sd_model_hash = CheckpointOf(raw'[t].path).sd_model_hash
              /\ pipeline'[t].scheduler \in CapturedAtInit(raw'[t])
        /\ (top[t] = "preprocess" \/ top'[t] = "preprocess") => raw'[t] = raw[t]
      ]_vars

C23_Witness ==
    /\ PreprocessEnded("main")
    /\ ret["main"].kind = "returned"
    /\ ret["main"].via = "fallback_b"
    /\ isdir(fs, ret["main"].path)
    /\ LoadedPipeline(fs, ret["main"].path).scheduler # raw["main"].scheduler
    /\ Carries(pipeline["main"], raw["main"])
    /\ pipeline["main"].scheduler # NullValue

\* C24 as stated (derived constants of the run configuration): while a run of
\* preprocess is in progress, the attention dimension and the auxiliary-
\* conditioning vector size of the shared configuration are the values the
\* architecture flag alone determines: the same values for every height (and
\* width and batch size) the run could have been given.
C24_AsStated ==
    \A t \in Threads :
        (top[t] = "preprocess" /\ Running(t) /\ ~overlap[t]) =>
            \A height \in Dims :
                /\ config.cross_attention_dim = cross_attention_dim(config.is_sdxl, height)
                /\ config.time_ids_size = time_ids_size(config.is_sdxl)

OptimizeMissPcs == {"op_seed", "op_run", "op_copy", "op_pipeline", "op_manifest", "op_except"}

\* an optimize call that found no keyed directory while 'retain optimized
\* cache' is disabled
UnretainedMiss(t) ==
    /\ "optimize" \in called[t]
    /\ ~hit[t].valid
    /\ ~opts.onnx_cache_optimized

\* C25 (optimize into a missing scratch directory): with 'retain optimized
\* cache' disabled, optimize on a miss has the scratch directory as out_dir and
\* the dimension-keyed directory is never created; when the scratch directory
\* did not exist at the call, optimize returns None however many engine
\* invocations succeeded, and preprocess ends in fallback B.
C25_MissingScratch ==
    \A t \in Threads :
        /\ (pc[t] \in OptimizeMissPcs \cup {"op_return"} /\ UnretainedMiss(t)) =>
              /\ out_dir[t] = onnx_temp_dir
              /\ ~isdir(fs, OptimizedPath(t))
        /\ (pc[t] = "op_return" /\ UnretainedMiss(t) /\ ~hit[t].scratch) =>
              optimized_dir[t] = None
        /\ (PreprocessEnded(t) /\ UnretainedMiss(t) /\ ~hit[t].scratch) =>
              ret[t].via = "fallback_b"

C25_Witness ==
    /\ pc["main"] = "op_return"
    /\ top["main"] = "preprocess"
    /\ raw["main"].path \in SrcDirs
    /\ UnretainedMiss("main")
    /\ ~hit["main"].scratch
    /\ runs["main"] = Len(submodels("main"))
    /\ invoked["main"] = submodels("main")
    /\ optimized_dir["main"] = None

\* C26 (cleanup destroys a cached conversion entry): with 'retain converted
\* cache' disabled, a directory convert returns to preprocess was found by its
\* cache check, so it existed before the run; it is still there at the final
\* step and is gone when preprocess has returned on terminal success. When
\* preprocess has ended in fallback B the converted directory exists, whatever
\* the setting.
C26_CachedEntryDestroyed ==
    \A t \in Threads :
        /\ (/\ top[t] = "preprocess"
            /\ pc[t] = "cv_return"
            /\ converted_dir[t] # None
            /\ ~opts.onnx_cache_converted) =>
              /\ hit[t].valid
              /\ runs[t] = 0
              /\ isdir(fs, converted_dir[t])
        /\ (pc[t] = "cleanup" /\ ~opts.onnx_cache_converted) => isdir(fs, converted_dir[t])
        /\ (/\ PreprocessEnded(t)
            /\ ret[t].kind = "returned"
            /\ ret[t].via = "success"
            /\ ~opts.onnx_cache_converted) => ~isdir(fs, converted_dir[t])
        /\ (PreprocessEnded(t) /\ ret[t].via = "fallback_b") =>
              /\ converted_dir[t] # None
              /\ isdir(fs, converted_dir[t])

C26_Witness ==
    /\ PreprocessEnded("main")
    /\ ret["main"].kind = "returned"
    /\ ret["main"].via = "success"
    /\ ~opts.onnx_cache_converted
    /\ "optimize" \notin called["main"]
    /\ hit["main"].valid
    /\ hit["main"].manifest
    /\ hit["main"].graphs = Range(submodels("main"))
    /\ converted_dir["main"] = ConvertedPath("main")
    /\ ~isdir(fs, ConvertedPath("main"))

\* an earlier preprocess on the frame's raw pipeline instance has returned
ServedBefore(t) == prior[t] \in {"success", "fallback_a", "fallback_b"}

\* an earlier preprocess on the instance ended with a failed conversion
FailedBefore(t) == prior[t] \in {"fallback_a", "raised:fallback_a"}

\* C27 (a single-file source converts only once per instance): a preprocess on
\* a raw pipeline built from a packed file hands convert the scratch directory;
\* when an earlier preprocess on the same instance has returned, the scratch
\* directory does not exist during the run, a convert that misses the cache
\* returns None and the run ends in fallback A; and after a run whose conversion
\* failed every later run on the instance ends in fallback A.
C27_SingleFileOnce ==
    \A t \in Threads :
        (top[t] = "preprocess" /\ raw[t].path \in SrcFiles) =>
            /\ Running(t) => in_dir[t] \in {onnx_temp_dir, converted_dir[t]}
            /\ pc[t] \in {"cv_check", "cv_seed", "cv_run", "cv_copy"} => in_dir[t] = onnx_temp_dir
            /\ (ServedBefore(t) \/ FailedBefore(t)) => ~isdir(fs, onnx_temp_dir)
            /\ (/\ ServedBefore(t) \/ FailedBefore(t)
                /\ pc[t] = "cv_return"
                /\ ~hit[t].valid) =>
                  /\ ~hit[t].scratch
                  /\ converted_dir[t] = None
            /\ (PreprocessEnded(t) /\ (ServedBefore(t) \/ FailedBefore(t)) /\ converted_dir[t] = None) =>
                  ret[t].via = "fallback_a"
            /\ (PreprocessEnded(t) /\ FailedBefore(t)) => ret[t].via = "fallback_a"

C27_Witness ==
    /\ PreprocessEnded("main")
    /\ raw["main"].path \in SrcFiles
    /\ prior["main"] = "fallback_a"
    /\ opts.onnx_cache_converted
    /\ ~hit["main"].valid
    /\ ~hit["main"].scratch
    /\ ret["main"].via = "fallback_a"
    /\ ret["main"].kind = "returned"

\* C28 (one namespace for both kinds of entry): the conversion directory of the
\* source named like an optimization key is the optimization directory of that
\* key; a convert call whose directory is the one the latest optimize call
\* returned returns it as a cache hit without invoking the engine, and an
\* optimize call whose keyed directory is the one the convert call just before
\* returned does the same.
C28_SharedNamespace ==
    /\ join(onnx_cached_models_path, basename(KeyLikeSource))
         = join(onnx_cached_models_path, OptimizedName("m", 512, 512))
    /\ \A t \in Threads :
        /\ (/\ pc[t] = "cv_return"
            /\ last_optimize.valid
            /\ last_optimize.result = ConvertedPath(t)) =>
              /\ converted_dir[t] = last_optimize.result
              /\ hit[t].valid
              /\ runs[t] = 0
              /\ invoked[t] = << >>
        /\ (/\ pc[t] = "op_return"
            /\ last_convert.valid
            /\ last_convert.age = 1
            /\ last_convert.result = OptimizedPath(t)) =>
              /\ optimized_dir[t] = last_convert.result
              /\ hit[t].valid
              /\ runs[t] = 0
              /\ invoked[t] = << >>

C28_Witness ==
    /\ calls = 2
    /\ pc["other"] = "cv_return"
    /\ raw["other"].path = KeyLikeSource
    /\ last_optimize.valid
    /\ last_optimize.filename = "m"
    /\ last_optimize.result = ConvertedPath("other")
    /\ converted_dir["other"] = last_optimize.result
    /\ hit["other"].graphs = Range(submodels_sd)
    /\ runs["other"] = 0

\* the other direction: optimize on "main" was served the directory that the
\* conversion of the key-like source had just written
C28_OptimizeHitsConverted ==
    /\ calls = 2
    /\ pc["main"] = "op_return"
    /\ last_convert.valid
    /\ last_convert.runs > 0
    /\ last_convert.result = OptimizedPath("main")
    /\ optimized_dir["main"] = last_convert.result

\* the call on frame t is past the cache check of optimize, and the call on
\* frame u had returned an optimized directory for the same filename, width
\* and height before it started
SameKeyAfter(t, u) ==
    /\ t # u
    /\ pc[t] = "op_return"
    /\ pc[u] = "done"
    /\ top[u] = "preprocess"
    /\ optimized_dir[u] # None
    /\ opts.onnx_cache_optimized
    /\ raw[t].original_filename = raw[u].original_filename
    /\ args[t].width = args[u].width
    /\ args[t].height = args[u].height

\* C29: the directory optimize resolves is a function of the source filename,
\* the width and the height only: with "retain optimized cache" enabled, a call
\* that follows one with the same filename and dimensions returns that call's
\* output directory without invoking the engine, whatever the execution
\* target, the float16 flag, the batch size and the architecture of either call
C29_KeyedByNameAndSize ==
    \A t \in Threads, u \in Threads :
        SameKeyAfter(t, u) =>
            /\ optimized_dir[t] = optimized_dir[u]
            /\ optimized_dir[t] = join(onnx_cached_models_path,
                                       OptimizedName(raw[t].original_filename,
                                                     args[t].width, args[t].height))
            /\ hit[t].valid
            /\ runs[t] = 0
            /\ ~olive_config[t].valid

\* a second call served the output of a first call whose engine ran with
\* another execution target, float16 flag, batch size and architecture
C29_Witness ==
    \E t \in Threads, u \in Threads :
        /\ SameKeyAfter(t, u)
        /\ optimized_dir[t] = optimized_dir[u]
        /\ olive_config[u].valid
        /\ olive_config[u].execution_provider # opts.onnx_execution_provider
        /\ olive_config[u].float16 # opts.onnx_olive_float16
        /\ args[u].batch_size # args[t].batch_size
        /\ raw[u]._is_sdxl # raw[t]._is_sdxl

\* the ways one iteration of the engine loop fails: the configuration file,
\* the engine run, the footprint file and the footprint record
EngineFailures == EngineOutcomes \ {"ok"}

GraphsOf(f, d) == IF isdir(f, d) THEN f[d].graphs ELSE {}

\* the step leaves a graph file in some directory that did not hold it
WritesGraph == \E d \in DOMAIN fs' : ~(fs'[d].graphs \subseteq GraphsOf(fs, d))

InEngineLoop(t) == pc[t] \in {"cv_run", "op_run"}
InCopyLoop(t) == pc[t] \in {"cv_copy", "op_copy"}

\* the stage run on frame t ended in its handler because an engine run or a
\* footprint check failed
EngineFailed(t) == pc[t] \in {"cv_except", "op_except"} /\ err[t] \in EngineFailures

\* a graph file is written only by the copy loop, and the copy loop runs only
\* after the engine loop has gone through every sub-component without an
\* error; the engine loop is entered from the seeding step of its stage and
\* left for the copy loop or for the handler
EnginesBeforeCopies ==
    /\ WritesGraph =>
          \E t \in Threads : /\ InCopyLoop(t)
                             /\ invoked[t] = submodels(t)
                             /\ runs[t] = Len(submodels(t))
                             /\ err[t] = ""
    /\ \A t \in Threads :
          /\ (InEngineLoop(t)' /\ ~InEngineLoop(t)) =>
                 /\ pc[t] = (IF pc'[t] = "cv_run" THEN "cv_seed" ELSE "op_seed")
                 /\ runs[t] = 0
          /\ (InCopyLoop(t)' /\ ~InCopyLoop(t)) =>
                 pc[t] = (IF pc'[t] = "cv_copy" THEN "cv_run" ELSE "op_run")
          /\ (EngineFailed(t)' /\ ~EngineFailed(t)) => (InEngineLoop(t) /\ fs' = fs)

\* C30: within convert and within optimize the engine run and the footprint
\* check of every sub-component are over before the first graph file is
\* copied, so a stage run that ends on an engine or footprint failure has
\* written no graph file: the directory it created for its output holds none
C30_EnginesBeforeCopies ==
    /\ [][EnginesBeforeCopies]_vars
    /\ [](\A t \in Threads :
             (EngineFailed(t) /\ out_dir[t] # onnx_temp_dir /\ isdir(fs, out_dir[t])) =>
                 fs[out_dir[t]].graphs = {})

\* the engine failed on a later sub-component after it had succeeded on an
\* earlier one, and the output directory the stage created holds no graph
C30_Witness ==
    \E t \in Threads :
        /\ EngineFailed(t)
        /\ err[t] = "footprint_record"
        /\ runs[t] >= 2
        /\ out_dir[t] # onnx_temp_dir
        /\ isdir(fs, out_dir[t])
        /\ fs[out_dir[t]].graphs = {}

====
